---- MODULE Spec2Model ----
(***************************************************************************)
(* pi-transcript: the conversation grouping engine (groupConversations)    *)
(* and the text extractor it uses, modelled from src/src/renderer.ts.      *)
(*                                                                         *)
(* JavaScript values are modelled as follows.                              *)
(*   - an object is a record; an optional property that is absent is a    *)
(*     field that is not in the record's DOMAIN ("name" in block);        *)
(*   - a string that the code trims or joins is a sequence of one-        *)
(*     character strings; a string that is only compared (type, role,     *)
(*     tool name, model name, timestamp) is a TLA+ string;                 *)
(*   - a content value is tagged by its runtime type: [array |-> seq],    *)
(*     [string |-> chars] or [null |-> TRUE];                              *)
(*   - a number held in a plain object used as a dictionary is tagged     *)
(*     [number |-> n]; the same slot can come to hold [string |-> s].     *)
(*   - an object's identity (the reference pushed into messages) is the   *)
(*     entry's id, its position in the input array.                        *)
(***************************************************************************)
EXTENDS Integers, Sequences, FiniteSets, TLC

\* ---------------------------------------------------------------- bounds
MaxEntries == 3     \* longest entry sequence handed to groupConversations
MaxCost    == 2     \* largest usage.cost.total of one assistant message
MaxBlocks  == 2     \* longest run of well-formed toolCall blocks in one message

\* ------------------------------------------------------- string helpers
Whitespace == {" ", "\t", "\n"}

RECURSIVE TrimStart(_)
TrimStart(s) ==
    IF s = <<>> THEN <<>>
    ELSE IF Head(s) \in Whitespace THEN TrimStart(Tail(s))
    ELSE s

RECURSIVE TrimEnd(_)
TrimEnd(s) ==
    IF s = <<>> THEN <<>>
    ELSE IF s[Len(s)] \in Whitespace THEN TrimEnd(SubSeq(s, 1, Len(s) - 1))
    ELSE s

\* String.prototype.trim
Trim(s) == TrimEnd(TrimStart(s))

\* Array.prototype.join
RECURSIVE Join(_, _)
Join(texts, sep) ==
    IF texts = <<>> THEN <<>>
    ELSE IF Len(texts) = 1 THEN texts[1]
    ELSE texts[1] \o sep \o Join(Tail(texts), sep)

\* ------------------------------------------------------ JavaScript values
Arr(items) == [array |-> items]
Str(chars) == [string |-> chars]
JsNull     == [null |-> TRUE]
Num(n)     == [number |-> n]

IsArray(v)  == "array" \in DOMAIN v
IsString(v) == "string" \in DOMAIN v
IsNumber(v) == "number" \in DOMAIN v

\* Conversation.model is string | null; NULL stands for null
NULL == "null"

\* the placeholder of an empty prompt, "(empty prompt)"
EMPTY_PROMPT == <<"(", "e", "m", "p", "t", "y", " ", "p", "r", "o", "m", "p", "t", ")">>

\* ---------------------------------------------------- extractTextFromContent
RECURSIVE TextsOfAnyKind(_)
TextsOfAnyKind(blocks) ==
    IF blocks = <<>> THEN <<>>
    ELSE LET block == Head(blocks)
             rest  == TextsOfAnyKind(Tail(blocks))
         IN  IF "text" \in DOMAIN block THEN <<block.text>> \o rest ELSE rest

\* the text blocks of a content array, in order (the loop over content)
RECURSIVE TextsOf(_)
TextsOf(blocks) ==
    IF blocks = <<>> THEN <<>>
    ELSE LET block == Head(blocks)
             rest  == TextsOf(Tail(blocks))
         IN  IF /\ "type" \in DOMAIN block
                /\ block.type = "text"
                /\ "text" \in DOMAIN block
             THEN <<block.text>> \o rest
             ELSE rest

extractTextStringAsIs(content) ==
    IF IsString(content) THEN content.string
    ELSE IF ~IsArray(content) THEN <<>>
    ELSE Trim(Join(TextsOf(content.array), <<" ">>))

extractTextFromContent(content) ==
    IF IsString(content) THEN Trim(content.string)
    ELSE IF ~IsArray(content) THEN <<>>
    ELSE Trim(Join(TextsOf(content.array), <<" ">>))

\* ------------------------------------------------------ plain-object lookup
\* names every plain object inherits from Object.prototype
ObjectPrototypeKeys == {"constructor", "toString", "valueOf", "hasOwnProperty"}

Undefined == [undefined |-> TRUE]

\* obj[key] for an object literal used as a dictionary: an own property,
\* else the function inherited from Object.prototype, else undefined
GetProperty(obj, key) ==
    IF key \in DOMAIN obj THEN obj[key]
    ELSE IF key \in ObjectPrototypeKeys THEN [function |-> key]
    ELSE Undefined

\* ToBoolean
Truthy(v) ==
    IF IsNumber(v) THEN v.number # 0
    ELSE IF IsString(v) THEN v.string # <<>>
    ELSE "function" \in DOMAIN v

\* ToString of the values a dictionary slot can hold; a string is the
\* sequence of its pieces
ToStr(v) ==
    IF IsString(v) THEN v.string
    ELSE IF IsNumber(v) THEN <<ToString(v.number)>>
    ELSE <<"function Object() { [native code] }">>

\* (v || 0) + 1: numeric addition on a number, concatenation otherwise
OrZeroPlusOne(v) ==
    LET w == IF Truthy(v) THEN v ELSE Num(0)
    IN  IF IsNumber(w) THEN Num(w.number + 1) ELSE Str(ToStr(w) \o <<"1">>)

\* obj[key] = value
SetProperty(obj, key, value) == (key :> value) @@ obj

\* ---------------------------------------------------------- groupConversations
\* mutant: the timestamp is read from the message instead of the entry
NewConversationMessageTimestamp(entry) ==
    LET text == extractTextFromContent(entry.message.content)
    IN  [userText   |-> IF text # <<>> THEN text ELSE EMPTY_PROMPT,
         timestamp  |-> IF "timestamp" \in DOMAIN entry.message
                        THEN entry.message.timestamp ELSE "undefined",
         messages   |-> <<entry>>,
         model      |-> NULL,
         totalCost  |-> 0,
         toolCounts |-> <<>>]

\* mutant: the extracted text is stored without the placeholder
NewConversationNoPlaceholder(entry) ==
    [userText   |-> extractTextFromContent(entry.message.content),
     timestamp  |-> entry.timestamp,
     messages   |-> <<entry>>,
     model      |-> NULL,
     totalCost  |-> 0,
     toolCounts |-> <<>>]

\* current = { userText, timestamp, messages: [entry], model: null, ... }
NewConversation(entry) ==
    LET text == extractTextFromContent(entry.message.content)
    IN  [userText   |-> IF text # <<>> THEN text ELSE EMPTY_PROMPT,
         timestamp  |-> entry.timestamp,
         messages   |-> <<entry>>,
         model      |-> NULL,
         totalCost  |-> 0,
         toolCounts |-> <<>>]

\* mutant: the model is assigned even when the message has none
NextModelOverwrite(model, msg) ==
    IF "model" \in DOMAIN msg THEN msg.model ELSE NULL

\* if (assistantMsg.model) current.model = assistantMsg.model
NextModel(model, msg) ==
    IF "model" \in DOMAIN msg /\ msg.model # "" THEN msg.model ELSE model

\* assistantMsg.usage?.cost?.total
UsageCostTotal(msg) ==
    IF /\ "usage" \in DOMAIN msg
       /\ "cost" \in DOMAIN msg.usage
       /\ "total" \in DOMAIN msg.usage.cost
    THEN Num(msg.usage.cost.total)
    ELSE Undefined

\* mutant: the cost is assigned (=) instead of added (+=)
NextTotalCostAssign(totalCost, msg) ==
    IF Truthy(UsageCostTotal(msg))
    THEN UsageCostTotal(msg).number
    ELSE totalCost

\* if (assistantMsg.usage?.cost?.total) current.totalCost += ...total
NextTotalCost(totalCost, msg) ==
    IF Truthy(UsageCostTotal(msg))
    THEN totalCost + UsageCostTotal(msg).number
    ELSE totalCost

\* the toolCall test of the block loop
IsNamedToolCall(block) ==
    /\ "type" \in DOMAIN block
    /\ block.type = "toolCall"
    /\ "name" \in DOMAIN block

\* block.name || "unknown"
ToolName(block) == IF block.name # "" THEN block.name ELSE "unknown"

\* for (const block of assistantMsg.content) { ... toolCounts[name] = ... + 1 }
RECURSIVE CountBlocks(_, _)
CountBlocks(toolCounts, blocks) ==
    IF blocks = <<>> THEN toolCounts
    ELSE LET block == Head(blocks)
             next  == IF IsNamedToolCall(block)
                      THEN SetProperty(toolCounts, ToolName(block),
                               OrZeroPlusOne(GetProperty(toolCounts, ToolName(block))))
                      ELSE toolCounts
         IN  CountBlocks(next, Tail(blocks))

\* if (Array.isArray(assistantMsg.content)) for (...)
NextToolCounts(toolCounts, msg) ==
    IF IsArray(msg.content) THEN CountBlocks(toolCounts, msg.content.array)
    ELSE toolCounts

\* the body of if (msg.role === "assistant")
AccumulateAssistant(conv, msg) ==
    [conv EXCEPT !.model      = NextModel(@, msg),
                 !.totalCost  = NextTotalCost(@, msg),
                 !.toolCounts = NextToolCounts(@, msg)]

\* mutant: the entry is put in front of the messages (unshift)
PushMessageInFront(conv, entry) == [conv EXCEPT !.messages = <<entry>> \o @]

\* current.messages.push(entry)
PushMessage(conv, entry) == [conv EXCEPT !.messages = Append(@, entry)]

\* mutant: the aggregates are accumulated whatever the role
AttachMessageAnyRole(conv, entry) ==
    AccumulateAssistant(PushMessage(conv, entry), entry.message)

\* the else-if (current) branch for a non-user message
AttachMessage(conv, entry) ==
    LET pushed == PushMessage(conv, entry)
    IN  IF entry.message.role = "assistant"
        THEN AccumulateAssistant(pushed, entry.message)
        ELSE pushed

\* ------------------------------------------------------------- the inputs
TextBlock(chars) == [type |-> "text", text |-> chars]
ThinkingBlock    == [type |-> "thinking", thinking |-> <<"h", "m">>]
ToolCall(name)   == [type |-> "toolCall", id |-> "call", name |-> name]
NamelessToolCall == [type |-> "toolCall", id |-> "call"]

MessageEntry(ts, msg) == [type |-> "message", timestamp |-> ts, message |-> msg]

\* n toolCall blocks of one name
Calls(name, n) == [k \in 1..n |-> ToolCall(name)]

\* the runs of named tool calls of one message: bash calls, then read calls
ToolRuns ==
    {Calls("bash", p[1]) \o Calls("read", p[2]) :
        p \in {q \in (0..MaxBlocks) \X (0..MaxBlocks) : q[1] + q[2] <= MaxBlocks}}

\* an assistant message without model and usage
Assistant(content) == [role |-> "assistant", content |-> content]

ModelNames == {"m1", "m2"}
ToolNames  == {"bash", "read"}

UserHi    == MessageEntry("t1", [role |-> "user", content |-> Arr(<<TextBlock(<<"H", "i">>)>>)])
UserEmpty == MessageEntry("t2", [role |-> "user", content |-> Arr(<<>>)])

\* a prompt whose only text is blank
UserBlank == MessageEntry("t1", [role |-> "user", content |-> Arr(<<TextBlock(<<" ">>)>>)])

\* a prompt of two padded text blocks around a block that is no text
UserPadded ==
    MessageEntry("t2", [role |-> "user",
                        content |-> Arr(<<TextBlock(<<" ", "a">>), ThinkingBlock,
                                          TextBlock(<<"b", " ">>)>>)])

\* a tool result whose content repeats a toolCall block
ToolResult ==
    MessageEntry("t0", [role |-> "toolResult", toolCallId |-> "call", toolName |-> "bash",
                        content |-> Arr(<<ToolCall("bash")>>)])

\* the entry kinds vary; one assistant message sets every aggregate
KindShapes ==
    {[type |-> "model_change", timestamp |-> "t0"],
     [type |-> "thinking_level_change", timestamp |-> "t0"],
     \* a type the engine does not know, carrying a user message
     [type |-> "custom_message", timestamp |-> "t0", message |-> UserHi.message],
     \* a message entry without a message
     [type |-> "message", timestamp |-> "t0"],
     \* a role the Message type does not list
     MessageEntry("t0", [role |-> "custom", content |-> Arr(<<>>)]),
     UserHi, UserEmpty, ToolResult,
     MessageEntry("t0", [model |-> "m1", usage |-> [cost |-> [total |-> 1]]]
                         @@ Assistant(Arr(<<ToolCall("bash")>>)))}

\* the content of the user messages varies: text, no block, a blank text,
\* padded texts around a block that is no text
PromptShapes ==
    {UserHi, UserEmpty, UserBlank, UserPadded, ToolResult,
     MessageEntry("t0", [model |-> "m1", usage |-> [cost |-> [total |-> 1]]]
                         @@ Assistant(Arr(<<ToolCall("bash")>>)))}

\* the model name and the usage cost of the assistant messages vary:
\* a name, an empty name, no name; a cost (0 included), a usage without
\* cost, no usage
AggregateShapes ==
    {UserHi, UserEmpty, ToolResult}
    \cup {MessageEntry("t0", Assistant(Arr(<<>>)))}
    \cup {MessageEntry("t0", [model |-> m] @@ Assistant(Arr(<<>>))) : m \in ModelNames \cup {""}}
    \cup {MessageEntry("t0", [usage |-> [cost |-> [total |-> c]]] @@ Assistant(Arr(<<>>))) :
             c \in 0..MaxCost}
    \cup {MessageEntry("t0", [usage |-> [totalTokens |-> 15]] @@ Assistant(Arr(<<>>)))}

\* the content of the assistant messages varies: runs of named tool calls
BlockShapes ==
    {UserHi, ToolResult}
    \cup {MessageEntry("t0", Assistant(Arr(q))) :
             q \in ToolRuns}

\* a named tool call next to a call with an empty name, a call without a
\* name, a call named like an inherited property, a block that is no tool
\* call, content that is no array
OddBlockShapes ==
    {UserHi, ToolResult}
    \cup {MessageEntry("t0", Assistant(Arr(<<b>>))) :
             b \in {ToolCall("bash"), ToolCall(""), NamelessToolCall,
                    ToolCall("constructor"), ThinkingBlock}}
    \cup {MessageEntry("t0", Assistant(Str(<<"o", "k">>)))}

\* the entry sequences groupConversations is called with: entry k has id k
WithIds(shapes) == [k \in DOMAIN shapes |-> [id |-> k] @@ shapes[k]]

\* the alphabets the entry sequences are drawn from
Alphabets ==
    {KindShapes, PromptShapes, AggregateShapes, BlockShapes, OddBlockShapes}

\* --------------------------------------------------------- the state machine
VARIABLES
    entries,         \* the argument of groupConversations
    i,               \* 1-based position of the for-of loop
    conversations,   \* const conversations: Conversation[]
    current,         \* let current: Conversation | null
    pc               \* "loop" inside the loop, "done" after return

groupVars == <<entries, i, conversations, current, pc>>

\* parseSessionFile
VARIABLES
    file,            \* what readFileSync finds at filepath
    lines,           \* const lines: the non-blank lines of the content
    lineNo,          \* 1-based position of the for-of loop over lines
    header,          \* let header: SessionHeader | null
    parsedEntries,   \* const entries: SessionEntry[] of parseSessionFile
    parsePc          \* "start", "lines", "returned" or "threw"

parseVars == <<file, lines, lineNo, header, parsedEntries, parsePc>>

\* extractTextFromContent
VARIABLES
    content,         \* the argument
    extracted        \* the string returned, Pending before the call

extractVars == <<content, extracted>>

\* generateTranscript, from groupConversations on
VARIABLES
    totalConvs,      \* conversations.length
    totalPages,      \* const totalPages
    pageNum,         \* the counter of the page loop
    pageFiles,       \* the page files written: page number and conversations
    indexFile,       \* index.html as written, Pending before
    generation,      \* the GenerationResult returned, Pending before
    genPc            \* "grouped", "pages" or "returned"

pageVars == <<totalConvs, totalPages, pageNum, pageFiles, indexFile, generation, genPc>>

\* main, --all mode
VARIABLES
    projects,        \* findAllSessions(): per project, per session, whether
                     \* generateTranscript throws on it
    projectNo,       \* position of the loop over projects
    sessionNo,       \* position of the loop over project.sessions
    total,           \* let total
    generated,       \* let generated
    outputs,         \* the sessions whose transcript has been written
    failures,        \* the sessions reported on stderr
    batchPc          \* "start", "loop" or "exited"

batchVars == <<projects, projectNo, sessionNo, total, generated, outputs, failures, batchPc>>

\* several groupConversations calls of one process
VARIABLES
    queue,           \* the entry sequences still to be grouped
    results          \* per finished call, its argument and what it returned

runVars == <<queue, results>>

\* main, --list and <number>
VARIABLES
    found,           \* the sessions on disk, in the order findAllSessions yields
    limit,           \* flags.limit
    positional,      \* flags.positional, a string of digits
    listed,          \* the numbered lines --list prints, Pending before
    selection,       \* the session <number> converts or its refusal, Pending before
    listPc           \* which of the two invocations have run

listVars == <<found, limit, positional, listed, selection, listPc>>

\* main, single-file mode from generateTranscript on
VARIABLES
    flags,           \* the flags parseArgs returned
    opened,          \* what has been opened in the browser
    singlePc         \* the block of main to run next

singleVars == <<flags, opened, singlePc>>

\* pickSession
VARIABLES
    shown,           \* the sessions argument
    isTTY,           \* process.stdin.isTTY
    selected,        \* let selected
    outcome,         \* what the promise resolved with, Pending before
    listening,       \* whether onKey is a listener of stdin
    presses          \* the keys pressed so far

pickVars == <<shown, isTTY, selected, outcome, listening, presses>>

vars == <<groupVars, parseVars, extractVars, pageVars, batchVars,
          runVars, listVars, singleVars, pickVars>>

\* a value not computed yet
Pending == [pending |-> TRUE]

\* readFileSync finds no readable file
Missing == [missing |-> TRUE]

\* the state of each function while it is not the one running
GroupIdle ==
    /\ entries = <<>>
    /\ i = 1
    /\ conversations = <<>>
    /\ current = JsNull
    /\ pc = "idle"

ParseIdle ==
    /\ file = Missing
    /\ lines = <<>>
    /\ lineNo = 1
    /\ header = JsNull
    /\ parsedEntries = <<>>
    /\ parsePc = "idle"

ExtractIdle ==
    /\ content = JsNull
    /\ extracted = Pending

PageIdle ==
    /\ totalConvs = 0
    /\ totalPages = 0
    /\ pageNum = 1
    /\ pageFiles = <<>>
    /\ indexFile = Pending
    /\ generation = Pending
    /\ genPc = "idle"

BatchIdle ==
    /\ projects = <<>>
    /\ projectNo = 1
    /\ sessionNo = 1
    /\ total = 0
    /\ generated = 0
    /\ outputs = <<>>
    /\ failures = <<>>
    /\ batchPc = "idle"

RunIdle ==
    /\ queue = <<>>
    /\ results = <<>>

ListIdle ==
    /\ found = <<>>
    /\ limit = 0
    /\ positional = <<>>
    /\ listed = Pending
    /\ selection = Pending
    /\ listPc = "idle"

NoFlags ==
    [open |-> FALSE, noOpen |-> FALSE, gist |-> FALSE, pages |-> FALSE,
     s3 |-> FALSE, output |-> ""]

SingleIdle ==
    /\ flags = NoFlags
    /\ opened = <<>>
    /\ singlePc = "idle"

PickIdle ==
    /\ shown = <<>>
    /\ isTTY = FALSE
    /\ selected = 0
    /\ outcome = Pending
    /\ listening = FALSE
    /\ presses = <<>>

Init ==
    /\ \E shapes \in Alphabets : \E n \in 0..MaxEntries :
          \E q \in [1..n -> shapes] : entries = WithIds(q)
    /\ i = 1
    /\ conversations = <<>>
    /\ current = JsNull
    /\ pc = "loop"
    /\ ParseIdle /\ ExtractIdle /\ PageIdle /\ BatchIdle
    /\ RunIdle /\ ListIdle /\ SingleIdle /\ PickIdle

InLoop == pc = "loop" /\ i <= Len(entries)

IsSideEntry(entry) == entry.type \in {"model_change", "thinking_level_change"}

\* mutant: the type of the entry is not tested
IsMessageByPayload(entry) == "message" \in DOMAIN entry

\* entry.type === "message" with a message
IsMessage(entry) == entry.type = "message" /\ "message" \in DOMAIN entry

\* model_change / thinking_level_change: if (current) push; continue
SideEntry ==
    /\ InLoop
    /\ IsSideEntry(entries[i])
    /\ current' = IF current # JsNull THEN PushMessage(current, entries[i]) ELSE current
    /\ i' = i + 1
    /\ UNCHANGED <<entries, conversations, pc>>
    /\ UNCHANGED <<parseVars, extractVars, pageVars, batchVars>>
    /\ UNCHANGED <<runVars, listVars, singleVars, pickVars>>

\* if (entry.type !== "message") continue; if (!msg) continue
SkipEntry ==
    /\ InLoop
    /\ ~IsSideEntry(entries[i])
    /\ ~IsMessage(entries[i])
    /\ i' = i + 1
    /\ UNCHANGED <<entries, conversations, current, pc>>
    /\ UNCHANGED <<parseVars, extractVars, pageVars, batchVars>>
    /\ UNCHANGED <<runVars, listVars, singleVars, pickVars>>

\* mutant: the active conversation is replaced without being flushed
UserMessageNoFlush ==
    /\ InLoop
    /\ IsMessage(entries[i])
    /\ entries[i].message.role = "user"
    /\ current' = NewConversation(entries[i])
    /\ i' = i + 1
    /\ UNCHANGED <<entries, conversations, pc>>
    /\ UNCHANGED <<parseVars, extractVars, pageVars, batchVars>>
    /\ UNCHANGED <<runVars, listVars, singleVars, pickVars>>

\* mutant: the flushed conversation is put in front of the output (unshift)
UserMessageUnshift ==
    /\ InLoop
    /\ IsMessage(entries[i])
    /\ entries[i].message.role = "user"
    /\ conversations' = IF current # JsNull THEN <<current>> \o conversations
                                            ELSE conversations
    /\ current' = NewConversation(entries[i])
    /\ i' = i + 1
    /\ UNCHANGED <<entries, pc>>
    /\ UNCHANGED <<parseVars, extractVars, pageVars, batchVars>>
    /\ UNCHANGED <<runVars, listVars, singleVars, pickVars>>

\* mutant: the new conversation starts from the aggregates of the flushed one
UserMessageCarriesOver ==
    /\ InLoop
    /\ IsMessage(entries[i])
    /\ entries[i].message.role = "user"
    /\ conversations' = IF current # JsNull THEN Append(conversations, current)
                                            ELSE conversations
    /\ current' = IF current # JsNull
                  THEN [NewConversation(entries[i]) EXCEPT !.model = current.model,
                                                           !.totalCost = current.totalCost,
                                                           !.toolCounts = current.toolCounts]
                  ELSE NewConversation(entries[i])
    /\ i' = i + 1
    /\ UNCHANGED <<entries, pc>>
    /\ UNCHANGED <<parseVars, extractVars, pageVars, batchVars>>
    /\ UNCHANGED <<runVars, listVars, singleVars, pickVars>>

\* msg.role === "user": flush the active conversation and start a new one
UserMessage ==
    /\ InLoop
    /\ IsMessage(entries[i])
    /\ entries[i].message.role = "user"
    /\ conversations' = IF current # JsNull THEN Append(conversations, current)
                                            ELSE conversations
    /\ current' = NewConversation(entries[i])
    /\ i' = i + 1
    /\ UNCHANGED <<entries, pc>>
    /\ UNCHANGED <<parseVars, extractVars, pageVars, batchVars>>
    /\ UNCHANGED <<runVars, listVars, singleVars, pickVars>>

\* mutant: the message is attached to the last emitted conversation as well
OtherMessageTouchesEmitted ==
    /\ InLoop
    /\ IsMessage(entries[i])
    /\ entries[i].message.role # "user"
    /\ current # JsNull
    /\ current' = AttachMessage(current, entries[i])
    /\ conversations' =
          IF conversations = <<>> THEN conversations
          ELSE [conversations EXCEPT ![Len(conversations)] =
                    AttachMessage(conversations[Len(conversations)], entries[i])]
    /\ i' = i + 1
    /\ UNCHANGED <<entries, pc>>
    /\ UNCHANGED <<parseVars, extractVars, pageVars, batchVars>>
    /\ UNCHANGED <<runVars, listVars, singleVars, pickVars>>

\* else if (current): attach the message, accumulate an assistant's aggregates
OtherMessage ==
    /\ InLoop
    /\ IsMessage(entries[i])
    /\ entries[i].message.role # "user"
    /\ current # JsNull
    /\ current' = AttachMessage(current, entries[i])
    /\ i' = i + 1
    /\ UNCHANGED <<entries, conversations, pc>>
    /\ UNCHANGED <<parseVars, extractVars, pageVars, batchVars>>
    /\ UNCHANGED <<runVars, listVars, singleVars, pickVars>>

\* mutant: a message without a preceding user message opens a conversation
DropMessageOpensConversation ==
    /\ InLoop
    /\ IsMessage(entries[i])
    /\ entries[i].message.role # "user"
    /\ current = JsNull
    /\ current' = [NewConversation(entries[i]) EXCEPT !.userText = EMPTY_PROMPT]
    /\ i' = i + 1
    /\ UNCHANGED <<entries, conversations, pc>>
    /\ UNCHANGED <<parseVars, extractVars, pageVars, batchVars>>
    /\ UNCHANGED <<runVars, listVars, singleVars, pickVars>>

\* a non-user message while current is null falls through both branches
DropMessage ==
    /\ InLoop
    /\ IsMessage(entries[i])
    /\ entries[i].message.role # "user"
    /\ current = JsNull
    /\ i' = i + 1
    /\ UNCHANGED <<entries, conversations, current, pc>>
    /\ UNCHANGED <<parseVars, extractVars, pageVars, batchVars>>
    /\ UNCHANGED <<runVars, listVars, singleVars, pickVars>>

\* mutant: the active conversation is not flushed at the end of the stream
ReturnWithoutFlush ==
    /\ pc = "loop"
    /\ i > Len(entries)
    /\ pc' = "done"
    /\ UNCHANGED <<entries, i, conversations, current>>
    /\ UNCHANGED <<parseVars, extractVars, pageVars, batchVars>>
    /\ UNCHANGED <<runVars, listVars, singleVars, pickVars>>

\* if (current) conversations.push(current); return conversations
Return ==
    /\ pc = "loop"
    /\ i > Len(entries)
    /\ conversations' = IF current # JsNull THEN Append(conversations, current)
                                            ELSE conversations
    /\ pc' = "done"
    /\ UNCHANGED <<entries, i, current>>
    /\ UNCHANGED <<parseVars, extractVars, pageVars, batchVars>>
    /\ UNCHANGED <<runVars, listVars, singleVars, pickVars>>

Next ==
    \/ SideEntry
    \/ SkipEntry
    \/ UserMessage
    \/ OtherMessage
    \/ DropMessage
    \/ Return

Spec == Init /\ [][Next]_vars

\* the loop and the return run to completion: the call is synchronous
FairSpec == Spec /\ WF_vars(Next)

TypeOK ==
    /\ i \in 1..(Len(entries) + 1)
    /\ pc \in {"loop", "done"}

\* ------------------------------------------------------------------ claims
\* a `message` entry whose message has role `user`
IsUserMessage(entry) ==
    /\ entry.type = "message"
    /\ "message" \in DOMAIN entry
    /\ entry.message.role = "user"

\* the positions of the user messages of the input
UserPositions == {k \in DOMAIN entries : IsUserMessage(entries[k])}

\* the position of the n-th user message of the input
NthUserPosition(n) ==
    CHOOSE k \in UserPositions : Cardinality({j \in UserPositions : j <= k}) = n

Done == pc = "done"

\* C1: the call returns exactly as many conversations as the input has message
\* entries with role user; what precedes the first user message adds none.
C1_OneConversationPerUserMessage ==
    Done => Len(conversations) = Cardinality(UserPositions)

\* two conversations returned for an input that starts with a non-user message
C1_Witness ==
    /\ Done
    /\ Len(entries) = 3
    /\ Len(conversations) = 2
    /\ IsMessage(entries[1])
    /\ entries[1].message.role = "assistant"

\* C2: in every emitted conversation messages[0] is a user message entry of the
\* input, timestamp is that entry's timestamp, and no later element of
\* messages is a user message.
C2_StartsWithItsUserMessage ==
    \A c \in 1..Len(conversations) :
        LET conv == conversations[c]
        IN  /\ Len(conv.messages) >= 1
            /\ IsUserMessage(conv.messages[1])
            /\ conv.messages[1].id \in DOMAIN entries
            /\ entries[conv.messages[1].id] = conv.messages[1]
            /\ conv.timestamp = conv.messages[1].timestamp
            /\ \A m \in 2..Len(conv.messages) : ~IsUserMessage(conv.messages[m])

\* an emitted conversation of three entries whose timestamp is not the
\* timestamp of the entries attached after the user message
C2_Witness ==
    /\ Len(conversations) >= 1
    /\ Len(conversations[1].messages) = 3
    /\ conversations[1].timestamp = "t2"
    /\ conversations[1].messages[2].timestamp = "t0"

\* C3: the conversations are returned in the order of their user messages:
\* the k-th conversation is started by the k-th user message of the input.
C3_OrderOfUserMessages ==
    Done =>
        \A c \in 1..Len(conversations) :
            /\ c <= Cardinality(UserPositions)
            /\ conversations[c].messages[1] = entries[NthUserPosition(c)]

\* three conversations returned, started by different user messages
C3_Witness ==
    /\ Done
    /\ Len(conversations) = 3
    /\ conversations[1].timestamp # conversations[2].timestamp

\* what the engine attaches but never lets start a conversation
IsOrphanKind(entry) ==
    \/ IsSideEntry(entry)
    \/ /\ IsMessage(entry)
       /\ entry.message.role \in {"assistant", "toolResult"}

\* the ids of the messages of a conversation
IdsOf(conv) == {conv.messages[m].id : m \in 1..Len(conv.messages)}

EmittedIds == UNION {IdsOf(conversations[c]) : c \in 1..Len(conversations)}

\* C4: while no conversation is active, an assistant message, a toolResult
\* message, a model_change or a thinking_level_change entry is discarded: the
\* step leaves the output list and the (absent) active conversation as they
\* are, and the entry is in no emitted conversation.
C4_OrphansDiscarded ==
    /\ [][(InLoop /\ current = JsNull /\ IsOrphanKind(entries[i]))
            => (current' = JsNull /\ conversations' = conversations)]_vars
    /\ [](\A k \in DOMAIN entries :
            (IsOrphanKind(entries[k]) /\ \A j \in UserPositions : k < j)
                => k \notin EmittedIds)

\* an assistant message that names a model and a cost was read before the
\* first user message; the conversation returned has neither
C4_Witness ==
    /\ Done
    /\ Len(entries) = 3
    /\ IsMessage(entries[1])
    /\ entries[1].message.role = "assistant"
    /\ "model" \in DOMAIN entries[1].message
    /\ Len(conversations) = 1
    /\ conversations[1].model = NULL
    /\ conversations[1].totalCost = 0
    /\ Len(conversations[1].messages) = 2

\* a toolResult message, a model_change or a thinking_level_change entry
IsAttachOnly(entry) ==
    \/ IsSideEntry(entry)
    \/ IsMessage(entry) /\ entry.message.role = "toolResult"

\* C5: while a conversation is active, a model_change, thinking_level_change
\* or toolResult entry is appended to the end of its messages and every other
\* field of the conversation (userText, timestamp, model, totalCost,
\* toolCounts) keeps its value.
C5_AttachOnlyEntries ==
    [][(InLoop /\ current # JsNull /\ IsAttachOnly(entries[i]))
         => /\ current'.messages = Append(current.messages, entries[i])
            /\ current'.userText = current.userText
            /\ current'.timestamp = current.timestamp
            /\ current'.model = current.model
            /\ current'.totalCost = current.totalCost
            /\ current'.toolCounts = current.toolCounts]_vars

\* a toolResult whose content holds a toolCall block was attached to a
\* conversation that had counted one tool call
C5_Witness ==
    /\ current # JsNull
    /\ Len(current.messages) = 3
    /\ IsMessage(current.messages[3])
    /\ current.messages[3].message.role = "toolResult"
    /\ current.messages[3].message.content.array # <<>>
    /\ current.toolCounts = ("bash" :> Num(1))
    /\ current.model = "m1"

KnownTypes == {"message", "model_change", "thinking_level_change"}

\* C6: an entry of any other type is ignored in both states: the step changes
\* neither the active conversation nor the output list, and no conversation
\* ever holds such an entry.
C6_UnknownTypesIgnored ==
    /\ [][(InLoop /\ entries[i].type \notin KnownTypes)
            => UNCHANGED <<current, conversations>>]_vars
    /\ [](/\ \A c \in 1..Len(conversations) :
               \A m \in 1..Len(conversations[c].messages) :
                   conversations[c].messages[m].type \in KnownTypes
          /\ current # JsNull =>
               \A m \in 1..Len(current.messages) : current.messages[m].type \in KnownTypes)

\* an entry of an unknown type that carries a user message was read while a
\* conversation was active, and one while none was
C6_Witness ==
    /\ Done
    /\ Len(entries) = 3
    /\ entries[1].type = "custom_message"
    /\ IsUserMessage(entries[2])
    /\ entries[3].type = "custom_message"
    /\ Len(conversations) = 1

\* C7: when the stream ends while a conversation is active, that conversation
\* is the last element of the output, and every conversation that was started
\* (one per user message) is in the output exactly once.
C7_Flushed ==
    Done =>
        /\ current # JsNull =>
              /\ Len(conversations) >= 1
              /\ conversations[Len(conversations)] = current
        /\ \A k \in UserPositions :
              Cardinality({c \in 1..Len(conversations) :
                              conversations[c].messages[1].id = k}) = 1

C7_FlushAtEndOfStream == <>Done /\ []C7_Flushed

\* the stream ended in an active conversation of two entries, after another
\* conversation had been flushed
C7_Witness ==
    /\ Done
    /\ current # JsNull
    /\ Len(conversations) = 2
    /\ Len(current.messages) = 2
    /\ conversations[2] = current

IsAssistant(entry) == IsMessage(entry) /\ entry.message.role = "assistant"

\* the message names a model: the property is there and is not the empty string
CarriesModelName(msg) == "model" \in DOMAIN msg /\ msg.model # ""

\* the model name of the last assistant message that carries one, NULL if none
RECURSIVE LastModelName(_)
LastModelName(messages) ==
    IF messages = <<>> THEN NULL
    ELSE LET last == messages[Len(messages)]
         IN  IF IsAssistant(last) /\ CarriesModelName(last.message)
             THEN last.message.model
             ELSE LastModelName(SubSeq(messages, 1, Len(messages) - 1))

\* the emitted conversations and the active one
AllConversations ==
    {conversations[c] : c \in 1..Len(conversations)}
        \cup (IF current # JsNull THEN {current} ELSE {})

\* C8: a conversation's model is the model name of the last assistant message
\* of the conversation that carries one; an assistant message without a model
\* name changes nothing; model is null only if no assistant message of the
\* conversation carried a name.
C8_StickyLastModel ==
    \A conv \in AllConversations : conv.model = LastModelName(conv.messages)

\* a returned conversation keeps the name of its first assistant message
\* although a later assistant message has none
C8_Witness ==
    /\ Done
    /\ Len(conversations) = 1
    /\ Len(conversations[1].messages) = 3
    /\ conversations[1].model = "m1"
    /\ IsAssistant(conversations[1].messages[3])
    /\ "model" \notin DOMAIN conversations[1].messages[3].message

\* usage.cost.total of an assistant message, 0 when it has none
CostOf(entry) ==
    IF /\ IsAssistant(entry)
       /\ "usage" \in DOMAIN entry.message
       /\ "cost" \in DOMAIN entry.message.usage
    THEN entry.message.usage.cost.total
    ELSE 0

RECURSIVE SumCosts(_)
SumCosts(messages) ==
    IF messages = <<>> THEN 0
    ELSE CostOf(Head(messages)) + SumCosts(Tail(messages))

\* C9: a conversation's totalCost is the sum of usage.cost.total over the
\* assistant messages attached to it, a message without a cost counting 0.
C9_TotalCostIsSum ==
    \A conv \in AllConversations : conv.totalCost = SumCosts(conv.messages)

\* a returned conversation sums the costs of two assistant messages
C9_Witness ==
    /\ Done
    /\ Len(conversations) = 1
    /\ Len(conversations[1].messages) = 3
    /\ CostOf(conversations[1].messages[2]) = 1
    /\ CostOf(conversations[1].messages[3]) = 2
    /\ conversations[1].totalCost = 3

\* the toolCall blocks of the assistant messages of a conversation
RECURSIVE ToolCallBlocks(_)
ToolCallBlocks(messages) ==
    IF messages = <<>> THEN <<>>
    ELSE LET entry == Head(messages)
             own   == IF IsAssistant(entry) /\ IsArray(entry.message.content)
                      THEN SelectSeq(entry.message.content.array,
                                     LAMBDA b : "type" \in DOMAIN b /\ b.type = "toolCall")
                      ELSE <<>>
         IN  own \o ToolCallBlocks(Tail(messages))

\* how many of them are named n
CallsNamed(messages, n) ==
    Len(SelectSeq(ToolCallBlocks(messages),
                  LAMBDA b : "name" \in DOMAIN b /\ b.name = n))

\* toolCounts[n], an absent key counting 0
CountOf(toolCounts, n) == IF n \in DOMAIN toolCounts THEN toolCounts[n] ELSE Num(0)

RECURSIVE SumOfCounts(_)
SumOfCounts(toolCounts) ==
    IF DOMAIN toolCounts = {} THEN 0
    ELSE LET n == CHOOSE x \in DOMAIN toolCounts : TRUE
         IN  toolCounts[n].number
               + SumOfCounts([x \in DOMAIN toolCounts \ {n} |-> toolCounts[x]])

\* the tool names of the inputs, and the name the engine substitutes
NamesSeen == ToolNames \cup {"", "constructor", "unknown"}

\* C10: for every emitted conversation and every tool name n, toolCounts[n] is
\* the number of toolCall blocks named n in the assistant messages attached to
\* the conversation, and the toolCounts values add up to the number of
\* toolCall blocks of those messages.
C10_ToolCountsPerName ==
    \A conv \in {conversations[c] : c \in 1..Len(conversations)} :
        /\ \A n \in NamesSeen :
              CountOf(conv.toolCounts, n) = Num(CallsNamed(conv.messages, n))
        /\ \A n \in DOMAIN conv.toolCounts : IsNumber(conv.toolCounts[n])
        /\ SumOfCounts(conv.toolCounts) = Len(ToolCallBlocks(conv.messages))

\* C11: a conversation's userText is the text extracted from the content of
\* its user message, or the placeholder "(empty prompt)" when that text is
\* empty; it is never the empty string.
C11_UserTextOrPlaceholder ==
    \A conv \in AllConversations :
        LET text == extractTextFromContent(conv.messages[1].message.content)
        IN  /\ text # <<>> => conv.userText = text
            /\ text = <<>> => conv.userText = EMPTY_PROMPT
            /\ conv.userText # <<>>

\* a blank prompt got the placeholder, a padded prompt its trimmed text
C11_Witness ==
    /\ Done
    /\ Len(conversations) = 2
    /\ conversations[1].messages[1].message.content = UserBlank.message.content
    /\ conversations[1].userText = EMPTY_PROMPT
    /\ Len(conversations[1].messages) = 2
    /\ conversations[2].userText = <<"a", " ", "b">>

\* what the engine makes of the entries of one conversation taken alone
RECURSIVE Regroup(_, _)
Regroup(conv, rest) ==
    IF rest = <<>> THEN conv
    ELSE Regroup(IF IsSideEntry(Head(rest)) THEN PushMessage(conv, Head(rest))
                                             ELSE AttachMessage(conv, Head(rest)),
                 Tail(rest))

\* C12: a user message starts a conversation with messages = [that entry],
\* model = null, totalCost = 0 and no tool counts, and every conversation is
\* what its own entries alone produce, whatever was grouped before it.
C12_FreshConversation ==
    /\ [][(InLoop /\ IsUserMessage(entries[i]))
            => /\ current'.messages = <<entries[i]>>
               /\ current'.model = NULL
               /\ current'.totalCost = 0
               /\ DOMAIN current'.toolCounts = {}]_vars
    /\ [](\A conv \in AllConversations :
            conv = Regroup(NewConversation(conv.messages[1]), Tail(conv.messages)))

\* the first conversation recorded a model, a cost and a tool call; the second
\* holds only its user message and none of them
C12_Witness ==
    /\ Done
    /\ Len(conversations) = 2
    /\ conversations[1].model = "m1"
    /\ conversations[1].totalCost = 1
    /\ DOMAIN conversations[1].toolCounts = {"bash"}
    /\ Len(conversations[2].messages) = 1
    /\ conversations[2].model = NULL
    /\ conversations[2].totalCost = 0
    /\ DOMAIN conversations[2].toolCounts = {}

\* ============================================================ parseSessionFile
MaxPieces == 5      \* longest file content, in pieces

\* A file content is a sequence of pieces: a line feed, a blank, or a text
\* that JSON.parse reads as one value or rejects.
SessionA    == "{\"type\":\"session\",\"id\":\"a\"}"
SessionB    == "{\"type\":\"session\",\"id\":\"b\"}"
MessageLine == "{\"type\":\"message\",\"id\":\"1\"}"
ChangeLine  == "{\"type\":\"model_change\",\"id\":\"2\"}"
NullLine    == "null"
NumberLine  == "42"
BadLine     == "not valid json"

\* the value JSON.parse returns for a text that is one JSON value
JsonValue(text) ==
    CASE text = SessionA    -> [type |-> "session", id |-> "a"]
      [] text = SessionB    -> [type |-> "session", id |-> "b"]
      [] text = MessageLine -> [type |-> "message", id |-> "1"]
      [] text = ChangeLine  -> [type |-> "model_change", id |-> "2"]
      [] text = NullLine    -> JsNull
      [] text = NumberLine  -> Num(42)

JsonTexts == {SessionA, SessionB, MessageLine, ChangeLine, NullLine, NumberLine}

\* JSON.parse(line): blanks around one JSON value are skipped; anything else
\* is a SyntaxError
JsonParse(line) ==
    LET body == Trim(line)
    IN  IF Len(body) = 1 /\ body[1] \in JsonTexts
        THEN [ok |-> TRUE, value |-> JsonValue(body[1])]
        ELSE [ok |-> FALSE]

\* content.split("\n")
RECURSIVE Split(_)
Split(text) ==
    IF \A k \in DOMAIN text : text[k] # "\n" THEN <<text>>
    ELSE LET k == CHOOSE j \in DOMAIN text :
                      text[j] = "\n" /\ \A h \in 1..(j - 1) : text[h] # "\n"
         IN  <<SubSeq(text, 1, k - 1)>> \o Split(SubSeq(text, k + 1, Len(text)))

\* .filter((l) => l.trim())
NonBlankLines(text) == SelectSeq(Split(text), LAMBDA l : Trim(l) # <<>>)

\* obj.type; reading a property of null throws a TypeError
HasType(obj, type) == "type" \in DOMAIN obj /\ obj.type = type

\* the try block of a line runs to its end
LineParses(line) == JsonParse(line).ok /\ JsonParse(line).value # JsNull

\* the file contents: entry lines among blank and malformed lines; session
\* lines among entry lines; lines whose JSON value is no record
LinePieces   == {"\n", " ", MessageLine, ChangeLine, BadLine}
HeaderPieces == {"\n", SessionA, SessionB, MessageLine}
ValuePieces  == {"\n", MessageLine, NullLine, NumberLine, BadLine}

PieceSets == {LinePieces, HeaderPieces, ValuePieces}

ParseInit ==
    /\ \/ file = Missing
       \/ \E pieces \in PieceSets : \E n \in 0..MaxPieces :
             \E q \in [1..n -> pieces] : file = [content |-> q]
    /\ lines = <<>>
    /\ lineNo = 1
    /\ header = JsNull
    /\ parsedEntries = <<>>
    /\ parsePc = "start"
    /\ GroupIdle /\ ExtractIdle /\ PageIdle /\ BatchIdle
    /\ RunIdle /\ ListIdle /\ SingleIdle /\ PickIdle

\* readFileSync throws: the error leaves parseSessionFile
ReadFails ==
    /\ parsePc = "start"
    /\ file = Missing
    /\ parsePc' = "threw"
    /\ UNCHANGED <<file, lines, lineNo, header, parsedEntries>>
    /\ UNCHANGED <<groupVars, extractVars, pageVars, batchVars>>
    /\ UNCHANGED <<runVars, listVars, singleVars, pickVars>>

\* const content = readFileSync(...); const lines = content.split("\n").filter(...)
ReadFile ==
    /\ parsePc = "start"
    /\ file # Missing
    /\ lines' = NonBlankLines(file.content)
    /\ parsePc' = "lines"
    /\ UNCHANGED <<file, lineNo, header, parsedEntries>>
    /\ UNCHANGED <<groupVars, extractVars, pageVars, batchVars>>
    /\ UNCHANGED <<runVars, listVars, singleVars, pickVars>>

InLines == parsePc = "lines" /\ lineNo <= Len(lines)

SessionLineFirstWins ==
    /\ InLines
    /\ LineParses(lines[lineNo])
    /\ HasType(JsonParse(lines[lineNo]).value, "session")
    /\ header' = IF header = JsNull THEN JsonParse(lines[lineNo]).value ELSE header
    /\ lineNo' = lineNo + 1
    /\ UNCHANGED <<file, lines, parsedEntries, parsePc>>
    /\ UNCHANGED <<groupVars, extractVars, pageVars, batchVars>>
    /\ UNCHANGED <<runVars, listVars, singleVars, pickVars>>

\* obj.type === "session": header = obj
SessionLine ==
    /\ InLines
    /\ LineParses(lines[lineNo])
    /\ HasType(JsonParse(lines[lineNo]).value, "session")
    /\ header' = JsonParse(lines[lineNo]).value
    /\ lineNo' = lineNo + 1
    /\ UNCHANGED <<file, lines, parsedEntries, parsePc>>
    /\ UNCHANGED <<groupVars, extractVars, pageVars, batchVars>>
    /\ UNCHANGED <<runVars, listVars, singleVars, pickVars>>

\* else entries.push(obj)
EntryLine ==
    /\ InLines
    /\ LineParses(lines[lineNo])
    /\ ~HasType(JsonParse(lines[lineNo]).value, "session")
    /\ parsedEntries' = Append(parsedEntries, JsonParse(lines[lineNo]).value)
    /\ lineNo' = lineNo + 1
    /\ UNCHANGED <<file, lines, header, parsePc>>
    /\ UNCHANGED <<groupVars, extractVars, pageVars, batchVars>>
    /\ UNCHANGED <<runVars, listVars, singleVars, pickVars>>

MalformedLineStops ==
    /\ InLines
    /\ ~LineParses(lines[lineNo])
    /\ lineNo' = Len(lines) + 1
    /\ UNCHANGED <<file, lines, header, parsedEntries, parsePc>>
    /\ UNCHANGED <<groupVars, extractVars, pageVars, batchVars>>
    /\ UNCHANGED <<runVars, listVars, singleVars, pickVars>>

\* catch { }: JSON.parse or obj.type threw, the line is skipped
MalformedLine ==
    /\ InLines
    /\ ~LineParses(lines[lineNo])
    /\ lineNo' = lineNo + 1
    /\ UNCHANGED <<file, lines, header, parsedEntries, parsePc>>
    /\ UNCHANGED <<groupVars, extractVars, pageVars, batchVars>>
    /\ UNCHANGED <<runVars, listVars, singleVars, pickVars>>

ParseReturnOnlyCleanFiles ==
    /\ parsePc = "lines"
    /\ lineNo > Len(lines)
    /\ parsePc' = IF \A k \in DOMAIN lines : LineParses(lines[k])
                  THEN "returned" ELSE "threw"
    /\ UNCHANGED <<file, lines, lineNo, header, parsedEntries>>
    /\ UNCHANGED <<groupVars, extractVars, pageVars, batchVars>>
    /\ UNCHANGED <<runVars, listVars, singleVars, pickVars>>

\* return { header, entries }
ParseReturn ==
    /\ parsePc = "lines"
    /\ lineNo > Len(lines)
    /\ parsePc' = "returned"
    /\ UNCHANGED <<file, lines, lineNo, header, parsedEntries>>
    /\ UNCHANGED <<groupVars, extractVars, pageVars, batchVars>>
    /\ UNCHANGED <<runVars, listVars, singleVars, pickVars>>

ParseNext ==
    \/ ReadFails
    \/ ReadFile
    \/ SessionLine
    \/ EntryLine
    \/ MalformedLine
    \/ ParseReturn

ParseSpec == ParseInit /\ [][ParseNext]_vars

\* the read and the loop run to completion: the call is synchronous
FairParseSpec == ParseSpec /\ WF_vars(ParseNext)

\* ------------------------------------------------------------ claims C13..C15
IsBlankLine(line) == \A k \in DOMAIN line : line[k] \in Whitespace

\* the records of the lines of a text that are not blank and parse, in line
\* order
RecordsOf(text) ==
    LET kept == SelectSeq(Split(text),
                          LAMBDA l : ~IsBlankLine(l) /\ LineParses(l))
    IN  [k \in DOMAIN kept |-> JsonParse(kept[k]).value]

IsSessionRecord(obj) == HasType(obj, "session")

ParseReturned == parsePc = "returned"

\* C13: blank lines and lines that fail parsing are dropped without an error,
\* and the returned entries are exactly the records of the remaining lines that
\* are not session records, in line order; a dropped line changes nothing about
\* the lines around it.
C13_EntriesAreValidLines ==
    /\ file # Missing => parsePc # "threw"
    /\ ParseReturned =>
          parsedEntries = SelectSeq(RecordsOf(file.content),
                                    LAMBDA obj : ~IsSessionRecord(obj))

C13_Witness ==
    /\ ParseReturned
    /\ file = [content |-> <<MessageLine, "\n", BadLine, "\n", ChangeLine>>]
    /\ parsedEntries = <<JsonValue(MessageLine), JsonValue(ChangeLine)>>

\* C14: a session record is never stored among the entries; the returned
\* header is the last session record of the file, or null when there is none.
C14_HeaderLastWins ==
    /\ \A k \in DOMAIN parsedEntries : ~IsSessionRecord(parsedEntries[k])
    /\ ParseReturned =>
          LET sessions == SelectSeq(RecordsOf(file.content), IsSessionRecord)
          IN  header = IF sessions = <<>> THEN JsNull
                       ELSE sessions[Len(sessions)]

C14_Witness ==
    /\ ParseReturned
    /\ file = [content |-> <<SessionA, "\n", MessageLine, "\n", SessionB>>]
    /\ header = JsonValue(SessionB)
    /\ parsedEntries = <<JsonValue(MessageLine)>>

\* C15: the call fails only when the file cannot be read, and then returns no
\* result; once the file has been read the call returns whatever its lines
\* contain.
C15_OnlyReadFailureIsFatal ==
    /\ [](parsePc = "threw" => file = Missing /\ [](parsePc # "returned"))
    /\ [](file = Missing => <>(parsePc = "threw"))
    /\ [](parsePc = "lines" => <>ParseReturned)

C15_Witness ==
    /\ parsePc = "threw"
    /\ file = Missing
    /\ header = JsNull
    /\ parsedEntries = <<>>

\* ============================================================ cli.ts, --all
MaxProjects == 3    \* projects found
MaxSessions == 2    \* sessions of one project

\* a session file: generateTranscript returns for it or throws
Session(throws) == [throws |-> throws]

\* findAllSessions() keeps only projects with at least one session
SessionLists ==
    UNION {[1..n -> {Session(TRUE), Session(FALSE)}] : n \in 1..MaxSessions}

Project(sessions) == [sessions |-> sessions]

BatchInit ==
    /\ \E n \in 0..MaxProjects : \E q \in [1..n -> SessionLists] :
          projects = [k \in 1..n |-> Project(q[k])]
    /\ projectNo = 1
    /\ sessionNo = 1
    /\ total = 0
    /\ generated = 0
    /\ outputs = <<>>
    /\ failures = <<>>
    /\ batchPc = "start"
    /\ GroupIdle /\ ParseIdle /\ ExtractIdle /\ PageIdle
    /\ RunIdle /\ ListIdle /\ SingleIdle /\ PickIdle

\* if (projects.length === 0) { ...; process.exit(0) }
NoSessionsFound ==
    /\ batchPc = "start"
    /\ projects = <<>>
    /\ batchPc' = "exited"
    /\ UNCHANGED <<projects, projectNo, sessionNo, total, generated, outputs, failures>>
    /\ UNCHANGED <<groupVars, parseVars, extractVars, pageVars>>
    /\ UNCHANGED <<runVars, listVars, singleVars, pickVars>>

\* let total = 0; let generated = 0; the loops begin
BatchStart ==
    /\ batchPc = "start"
    /\ projects # <<>>
    /\ total' = 0
    /\ generated' = 0
    /\ batchPc' = "loop"
    /\ UNCHANGED <<projects, projectNo, sessionNo, outputs, failures>>
    /\ UNCHANGED <<groupVars, parseVars, extractVars, pageVars>>
    /\ UNCHANGED <<runVars, listVars, singleVars, pickVars>>

InBatch == batchPc = "loop" /\ projectNo <= Len(projects)

ThisSession == projects[projectNo].sessions[sessionNo]

\* the next iteration of the two nested for-of loops
NextProjectNo ==
    IF sessionNo < Len(projects[projectNo].sessions) THEN projectNo ELSE projectNo + 1

NextSessionNo ==
    IF sessionNo < Len(projects[projectNo].sessions) THEN sessionNo + 1 ELSE 1

\* total++; generateTranscript(...) returns; generated++
SessionGenerated ==
    /\ InBatch
    /\ ~ThisSession.throws
    /\ total' = total + 1
    /\ outputs' = Append(outputs, <<projectNo, sessionNo>>)
    /\ generated' = generated + 1
    /\ projectNo' = NextProjectNo
    /\ sessionNo' = NextSessionNo
    /\ UNCHANGED <<projects, failures, batchPc>>
    /\ UNCHANGED <<groupVars, parseVars, extractVars, pageVars>>
    /\ UNCHANGED <<runVars, listVars, singleVars, pickVars>>

SessionFailsEndsBatch ==
    /\ InBatch
    /\ ThisSession.throws
    /\ total' = total + 1
    /\ failures' = Append(failures, <<projectNo, sessionNo>>)
    /\ batchPc' = "exited"
    /\ UNCHANGED <<projects, projectNo, sessionNo, generated, outputs>>
    /\ UNCHANGED <<groupVars, parseVars, extractVars, pageVars>>
    /\ UNCHANGED <<runVars, listVars, singleVars, pickVars>>

\* total++; generateTranscript(...) throws; catch: console.error("Failed: ...")
SessionFails ==
    /\ InBatch
    /\ ThisSession.throws
    /\ total' = total + 1
    /\ failures' = Append(failures, <<projectNo, sessionNo>>)
    /\ projectNo' = NextProjectNo
    /\ sessionNo' = NextSessionNo
    /\ UNCHANGED <<projects, generated, outputs, batchPc>>
    /\ UNCHANGED <<groupVars, parseVars, extractVars, pageVars>>
    /\ UNCHANGED <<runVars, listVars, singleVars, pickVars>>

\* console.log("Generated ${generated} session transcripts"); process.exit(0)
BatchExit ==
    /\ batchPc = "loop"
    /\ projectNo > Len(projects)
    /\ batchPc' = "exited"
    /\ UNCHANGED <<projects, projectNo, sessionNo, total, generated, outputs, failures>>
    /\ UNCHANGED <<groupVars, parseVars, extractVars, pageVars>>
    /\ UNCHANGED <<runVars, listVars, singleVars, pickVars>>

BatchNext ==
    \/ NoSessionsFound
    \/ BatchStart
    \/ SessionGenerated
    \/ SessionFails
    \/ BatchExit

BatchSpec == BatchInit /\ [][BatchNext]_vars

\* ------------------------------------------------------------ claim C16
\* the sessions of projects k.., in loop order, as <<project, session>>
RECURSIVE SessionsFrom(_)
SessionsFrom(k) ==
    IF k > Len(projects) THEN <<>>
    ELSE [n \in DOMAIN projects[k].sessions |-> <<k, n>>] \o SessionsFrom(k + 1)

Throws(at) == projects[at[1]].sessions[at[2]].throws

BatchExited == batchPc = "exited"

\* C16: in batch mode a session whose generation throws is reported and
\* skipped, all the sessions after it, of its project and of the later ones,
\* are still processed, and the final generated count is the number of
\* sessions whose generation succeeded.
C16_BatchSkipsFailures ==
    BatchExited =>
        /\ total = Len(SessionsFrom(1))
        /\ failures = SelectSeq(SessionsFrom(1), Throws)
        /\ outputs = SelectSeq(SessionsFrom(1), LAMBDA at : ~Throws(at))
        /\ generated = Len(outputs)

C16_Witness ==
    /\ BatchExited
    /\ Len(projects) = 2
    /\ projects[1].sessions = <<Session(TRUE), Session(FALSE)>>
    /\ projects[2].sessions = <<Session(FALSE)>>
    /\ failures = <<(<<1, 1>>)>>
    /\ generated = 2
    /\ total = 3

\* ============================================================ extractTextFromContent
MaxChars == 3       \* longest string content
MaxItems == 3       \* longest content array

\* content blocks that are no text block, and text blocks
ImageBlock      == [type |-> "image", source |-> [data |-> "png"]]
NoteBlock       == [type |-> "note", text |-> <<"n">>]
TextlessBlock   == [type |-> "text"]
PlainObject     == [object |-> TRUE]

Chars == {"a", " ", "\n"}

ContentStrings ==
    {Str(q) : q \in UNION {[1..n -> Chars] : n \in 0..MaxChars}}

ContentItems ==
    {TextBlock(<<"a">>), TextBlock(<<" ", "b", " ">>), TextBlock(<<>>),
     ThinkingBlock, ToolCall("bash"), ImageBlock, NoteBlock, TextlessBlock,
     JsNull}

ContentArrays ==
    {Arr(q) : q \in UNION {[1..n -> ContentItems] : n \in 0..MaxItems}}

ExtractInit ==
    /\ content \in ContentStrings \cup ContentArrays \cup {JsNull, Num(7), PlainObject}
    /\ extracted = Pending
    /\ GroupIdle /\ ParseIdle /\ PageIdle /\ BatchIdle
    /\ RunIdle /\ ListIdle /\ SingleIdle /\ PickIdle

\* if (typeof content === "string") return content.trim()
ExtractFromString ==
    /\ extracted = Pending
    /\ IsString(content)
    /\ extracted' = Str(extractTextFromContent(content))
    /\ UNCHANGED content
    /\ UNCHANGED <<groupVars, parseVars, pageVars, batchVars>>
    /\ UNCHANGED <<runVars, listVars, singleVars, pickVars>>

\* if (!Array.isArray(content)) return ""
ExtractFromOther ==
    /\ extracted = Pending
    /\ ~IsString(content)
    /\ ~IsArray(content)
    /\ extracted' = Str(extractTextFromContent(content))
    /\ UNCHANGED content
    /\ UNCHANGED <<groupVars, parseVars, pageVars, batchVars>>
    /\ UNCHANGED <<runVars, listVars, singleVars, pickVars>>

\* the loop over the blocks; return texts.join(" ").trim()
ExtractFromArray ==
    /\ extracted = Pending
    /\ IsArray(content)
    /\ extracted' = Str(extractTextFromContent(content))
    /\ UNCHANGED content
    /\ UNCHANGED <<groupVars, parseVars, pageVars, batchVars>>
    /\ UNCHANGED <<runVars, listVars, singleVars, pickVars>>

ExtractNext ==
    \/ ExtractFromString
    \/ ExtractFromOther
    \/ ExtractFromArray

ExtractSpec == ExtractInit /\ [][ExtractNext]_vars

\* ------------------------------------------------------------ claims C17, C18
\* t is s without the whitespace at its two ends
IsTrimOf(t, s) ==
    \E a \in 1..(Len(s) + 1) : \E b \in 0..Len(s) :
        /\ t = SubSeq(s, a, b)
        /\ \A k \in 1..(a - 1) : s[k] \in Whitespace
        /\ \A k \in (b + 1)..Len(s) : s[k] \in Whitespace
        /\ t # <<>> => t[1] \notin Whitespace /\ t[Len(t)] \notin Whitespace

IsTextKind(block) == "type" \in DOMAIN block /\ block.type = "text"

Extracted == extracted # Pending

\* C17: the result is the empty string for an array without a text block, for
\* an empty array, for an empty string and for an input that is neither a
\* string nor an array; for a string it is that string trimmed.
C17_EmptyAndStringInputs ==
    Extracted =>
        /\ (IsArray(content) /\ \A k \in DOMAIN content.array :
                                    ~IsTextKind(content.array[k]))
              => extracted = Str(<<>>)
        /\ content = Arr(<<>>) => extracted = Str(<<>>)
        /\ content = Str(<<>>) => extracted = Str(<<>>)
        /\ (~IsString(content) /\ ~IsArray(content)) => extracted = Str(<<>>)
        /\ IsString(content) => IsTrimOf(extracted.string, content.string)

C17_Witness ==
    /\ Extracted
    /\ content = Arr(<<ThinkingBlock, ToolCall("bash"), ImageBlock>>)
    /\ extracted = Str(<<>>)

\* the texts with one blank between each two neighbours
RECURSIVE Spaced(_)
Spaced(texts) ==
    IF texts = <<>> THEN <<>>
    ELSE IF Len(texts) = 1 THEN texts[1]
    ELSE Spaced(SubSeq(texts, 1, Len(texts) - 1)) \o <<" ">> \o texts[Len(texts)]

\* the texts of the text blocks of an array, in order
TextsOfTextBlocks(blocks) ==
    LET kept == SelectSeq(blocks, LAMBDA b : IsTextKind(b) /\ "text" \in DOMAIN b)
    IN  [k \in DOMAIN kept |-> kept[k].text]

\* C18: for an array the result is the texts of its text blocks, in order,
\* joined by one space and trimmed at both ends; the other blocks add neither
\* text nor separators.
C18_TextBlocksJoined ==
    (Extracted /\ IsArray(content)) =>
        IsTrimOf(extracted.string, Spaced(TextsOfTextBlocks(content.array)))

C18_Witness ==
    /\ Extracted
    /\ content = Arr(<<TextBlock(<<" ", "b", " ">>), NoteBlock, TextBlock(<<"a">>)>>)
    /\ extracted = Str(<<"b", " ", " ", "a">>)

\* ============================================================ generateTranscript
MaxConvs == 26      \* most conversations of one session

\* renderer.ts: const PROMPTS_PER_PAGE = 5
PROMPTS_PER_PAGE == 5

Max(a, b) == IF a >= b THEN a ELSE b
Min(a, b) == IF a <= b THEN a ELSE b

\* Math.ceil(a / b) for a >= 0, b > 0
Ceil(a, b) == IF a % b = 0 THEN a \div b ELSE (a \div b) + 1

SliceFromFirst(seq, start, end) == SubSeq(seq, 1, end)

\* Array.prototype.slice(start, end) for 0 <= start, end <= length
Slice(seq, start, end) == SubSeq(seq, start + 1, end)

\* String(n).padStart(3, "0")
Pad3(n) ==
    IF n < 10 THEN "00" \o ToString(n)
    ELSE IF n < 100 THEN "0" \o ToString(n)
    ELSE ToString(n)

\* `page-${String(n).padStart(3, "0")}.html`
PageName(n) == "page-" \o Pad3(n) \o ".html"

\* the numbered links of renderPagination, from page p on
RECURSIVE NumberedLinks(_, _, _, _)
NumberedLinks(p, currentPage, pages, isIndex) ==
    IF p > pages THEN <<>>
    ELSE (IF ~isIndex /\ p = currentPage THEN <<>> ELSE <<PageName(p)>>)
         \o NumberedLinks(p + 1, currentPage, pages, isIndex)

renderPaginationNextUnguarded(currentPage, pages, isIndex) ==
    IF pages <= 1 /\ ~isIndex THEN <<"index.html">>
    ELSE (IF isIndex THEN <<>>
          ELSE <<"index.html">>
               \o (IF currentPage > 1 THEN <<PageName(currentPage - 1)>> ELSE <<>>))
         \o NumberedLinks(1, currentPage, pages, isIndex)
         \o (IF isIndex
             THEN (IF pages >= 1 THEN <<"page-001.html">> ELSE <<>>)
             ELSE <<PageName(currentPage + 1)>>)

\* renderPagination: the targets of the links it emits, in order
renderPagination(currentPage, pages, isIndex) ==
    IF pages <= 1 /\ ~isIndex THEN <<"index.html">>
    ELSE (IF isIndex THEN <<>>
          ELSE <<"index.html">>
               \o (IF currentPage > 1 THEN <<PageName(currentPage - 1)>> ELSE <<>>))
         \o NumberedLinks(1, currentPage, pages, isIndex)
         \o (IF isIndex
             THEN (IF pages >= 1 THEN <<"page-001.html">> ELSE <<>>)
             ELSE (IF currentPage < pages
                   THEN <<PageName(currentPage + 1)>> ELSE <<>>))

\* a + b of JavaScript: addition of two numbers, concatenation otherwise
JsAdd(a, b) ==
    IF IsNumber(a) /\ IsNumber(b) THEN Num(a.number + b.number)
    ELSE Str(ToStr(a) \o ToStr(b))

\* Object.values(toolCounts).reduce((s, v) => s + v, s); the order of the
\* values shows only in the text of a result that is no number
RECURSIVE ReduceValues(_, _)
ReduceValues(toolCounts, s) ==
    IF DOMAIN toolCounts = {} THEN s
    ELSE LET n == CHOOSE x \in DOMAIN toolCounts : TRUE
         IN  ReduceValues([x \in DOMAIN toolCounts \ {n} |-> toolCounts[x]],
                          JsAdd(s, toolCounts[n]))

\* conversations.reduce((sum, c) => sum + c.messages.length, sum)
RECURSIVE TotalMessages(_, _)
TotalMessages(convs, sum) ==
    IF convs = <<>> THEN sum
    ELSE TotalMessages(Tail(convs), sum + Len(Head(convs).messages))

\* conversations.reduce((sum, c) => sum + Object.values(...).reduce(..., 0), sum)
RECURSIVE TotalToolCalls(_, _)
TotalToolCalls(convs, sum) ==
    IF convs = <<>> THEN sum
    ELSE TotalToolCalls(Tail(convs),
                        JsAdd(sum, ReduceValues(Head(convs).toolCounts, Num(0))))

\* conversations.reduce((sum, c) => sum + c.totalCost, sum)
RECURSIVE TotalCost(_, _)
TotalCost(convs, sum) ==
    IF convs = <<>> THEN sum
    ELSE TotalCost(Tail(convs), sum + Head(convs).totalCost)

IndexPageNumOfNextIndex(k) == ((k + 1) \div PROMPTS_PER_PAGE) + 1

\* Math.floor(i / PROMPTS_PER_PAGE) + 1 for the 0-based index i
IndexPageNum(k) == (k \div PROMPTS_PER_PAGE) + 1

\* generateIndexHtml: the statistics, the targets of the pagination links and,
\* per conversation, the page its item links to (the fragment is left out)
generateIndexHtml(convs, pages) ==
    [totalMessages  |-> TotalMessages(convs, 0),
     totalToolCalls |-> TotalToolCalls(convs, Num(0)),
     totalCost      |-> TotalCost(convs, 0),
     links          |-> renderPagination(0, pages, TRUE),
     items          |-> [k \in DOMAIN convs |-> PageName(IndexPageNum(k - 1))]]

\* the k-th conversation groupConversations returned
Prompt(k) == NewConversation(MessageEntry(k, UserHi.message))

\* const conversations = groupConversations(entries) has returned
PageInit ==
    /\ \E n \in 0..MaxConvs : conversations = [k \in 1..n |-> Prompt(k)]
    /\ entries = <<>>
    /\ i = 1
    /\ current = JsNull
    /\ pc = "idle"
    /\ totalConvs = 0
    /\ totalPages = 0
    /\ pageNum = 1
    /\ pageFiles = <<>>
    /\ indexFile = Pending
    /\ generation = Pending
    /\ genPc = "grouped"
    /\ ParseIdle /\ ExtractIdle /\ BatchIdle
    /\ RunIdle /\ ListIdle /\ SingleIdle /\ PickIdle

CountPagesNoMinimum ==
    /\ genPc = "grouped"
    /\ totalConvs' = Len(conversations)
    /\ totalPages' = Ceil(totalConvs', PROMPTS_PER_PAGE)
    /\ pageNum' = 1
    /\ genPc' = "pages"
    /\ UNCHANGED <<pageFiles, indexFile, generation>>
    /\ UNCHANGED <<groupVars, parseVars, extractVars, batchVars>>
    /\ UNCHANGED <<runVars, listVars, singleVars, pickVars>>

\* const totalConvs = ...; const totalPages = Math.max(1, Math.ceil(...))
CountPages ==
    /\ genPc = "grouped"
    /\ totalConvs' = Len(conversations)
    /\ totalPages' = Max(1, Ceil(totalConvs', PROMPTS_PER_PAGE))
    /\ pageNum' = 1
    /\ genPc' = "pages"
    /\ UNCHANGED <<pageFiles, indexFile, generation>>
    /\ UNCHANGED <<groupVars, parseVars, extractVars, batchVars>>
    /\ UNCHANGED <<runVars, listVars, singleVars, pickVars>>

\* one turn of the page loop: slice, render, write page-NNN.html; the files
\* are written in the order of their numbers
WritePage ==
    /\ genPc = "pages"
    /\ pageNum <= totalPages
    /\ LET startIdx  == (pageNum - 1) * PROMPTS_PER_PAGE
           endIdx    == Min(startIdx + PROMPTS_PER_PAGE, totalConvs)
           pageConvs == Slice(conversations, startIdx, endIdx)
       IN  pageFiles' = Append(pageFiles,
                               [pageNum  |-> pageNum,
                                filename |-> PageName(pageNum),
                                convs    |-> pageConvs,
                                links    |-> renderPagination(pageNum, totalPages, FALSE)])
    /\ pageNum' = pageNum + 1
    /\ UNCHANGED <<totalConvs, totalPages, indexFile, generation, genPc>>
    /\ UNCHANGED <<groupVars, parseVars, extractVars, batchVars>>
    /\ UNCHANGED <<runVars, listVars, singleVars, pickVars>>

\* the index is written; return { pages: totalPages, prompts: totalConvs, ... }
GenerationReturn ==
    /\ genPc = "pages"
    /\ pageNum > totalPages
    /\ indexFile' = generateIndexHtml(conversations, totalPages)
    /\ generation' = [pages |-> totalPages, prompts |-> totalConvs]
    /\ genPc' = "returned"
    /\ UNCHANGED <<totalConvs, totalPages, pageNum, pageFiles>>
    /\ UNCHANGED <<groupVars, parseVars, extractVars, batchVars>>
    /\ UNCHANGED <<runVars, listVars, singleVars, pickVars>>

PageNext ==
    \/ CountPages
    \/ WritePage
    \/ GenerationReturn

PageSpec == PageInit /\ [][PageNext]_vars

\* ------------------------------------------------------------ claims C19, C20
Generated == genPc = "returned"

\* the least number of pages of 5, and at least one, that hold n conversations
PagesFor(n) ==
    CHOOSE p \in 1..(n + 1) :
        /\ p * 5 >= n
        /\ \A q \in 1..(p - 1) : q * 5 < n

\* C19: for every number C >= 0 of conversations totalPages is
\* max(1, ceil(C / 5)) and is reported as pages; there is at least one page
\* even without conversations.
C19_TotalPages ==
    /\ genPc \in {"pages", "returned"} =>
          /\ totalPages = PagesFor(Len(conversations))
          /\ totalPages >= 1
    /\ Generated => generation.pages = PagesFor(Len(conversations))

C19_Witness ==
    /\ Generated
    /\ conversations = <<>>
    /\ generation.pages = 1
    /\ Len(pageFiles) = 1

\* the conversations of pages p.., one after the other
RECURSIVE PagesFrom(_)
PagesFrom(p) ==
    IF p > Len(pageFiles) THEN <<>>
    ELSE pageFiles[p].convs \o PagesFrom(p + 1)

\* C20: the pages partition the conversations: page p holds those at the
\* 0-based indices [(p-1)*5, p*5), each conversation is on exactly one page,
\* every page but the last holds 5, and the pages in order give back the
\* sequence.
C20_PagesPartition ==
    Generated =>
        /\ \A p \in DOMAIN pageFiles :
              LET held == {x \in 0..(Len(conversations) - 1) :
                              (p - 1) * 5 <= x /\ x < p * 5}
              IN  /\ pageFiles[p].pageNum = p
                  /\ Len(pageFiles[p].convs) = Cardinality(held)
                  /\ \A k \in DOMAIN pageFiles[p].convs :
                        pageFiles[p].convs[k] = conversations[(p - 1) * 5 + k]
        /\ \A x \in DOMAIN conversations :
              Cardinality({at \in (DOMAIN pageFiles) \X (1..5) :
                              /\ at[2] <= Len(pageFiles[at[1]].convs)
                              /\ pageFiles[at[1]].convs[at[2]] = conversations[x]}) = 1
        /\ \A p \in 1..(Len(pageFiles) - 1) : Len(pageFiles[p].convs) = 5
        /\ PagesFrom(1) = conversations

C20_Witness ==
    /\ Generated
    /\ Len(conversations) = 12
    /\ Len(pageFiles) = 3
    /\ Len(pageFiles[1].convs) = 5
    /\ Len(pageFiles[3].convs) = 2
    /\ pageFiles[3].convs[2] = conversations[12]

\* ------------------------------------------------------------ claims C26, C28
\* C26: once the transcript is generated there is a page file for every
\* number in 1..totalPages, and every pagination link of every page and of
\* the index (numbered, Prev, Next, the index's Next) is index.html or the
\* name of a page file with a number in 1..totalPages that was written.
C26_LinksHitPages ==
    Generated =>
        /\ \A n \in 1..totalPages :
              \E p \in DOMAIN pageFiles :
                  pageFiles[p].pageNum = n /\ pageFiles[p].filename = PageName(n)
        /\ \A p \in DOMAIN pageFiles : \A k \in DOMAIN pageFiles[p].links :
              \/ pageFiles[p].links[k] = "index.html"
              \/ \E n \in 1..totalPages :
                    /\ pageFiles[p].links[k] = PageName(n)
                    /\ \E q \in DOMAIN pageFiles : pageFiles[q].filename = PageName(n)
        /\ \A k \in DOMAIN indexFile.links :
              \E n \in 1..totalPages :
                  /\ indexFile.links[k] = PageName(n)
                  /\ \E q \in DOMAIN pageFiles : pageFiles[q].filename = PageName(n)

\* twelve conversations: the last of three pages links to the index, back to
\* page 2 and to pages 1 and 2, the index to the three pages and on to page 1
C26_Witness ==
    /\ Generated
    /\ Len(conversations) = 12
    /\ pageFiles[3].links =
           <<"index.html", "page-002.html", "page-001.html", "page-002.html">>
    /\ pageFiles[1].links =
           <<"index.html", "page-002.html", "page-003.html", "page-002.html">>
    /\ indexFile.links =
           <<"page-001.html", "page-002.html", "page-003.html", "page-001.html">>

\* C28: the page the index links to for the conversation at 0-based index x
\* is page floor(x / 5) + 1, and the file of that page is the one whose slice
\* holds the conversation.
C28_IndexLinkLands ==
    Generated =>
        \A k \in DOMAIN conversations :
            /\ indexFile.items[k] = PageName(((k - 1) \div 5) + 1)
            /\ \E p \in DOMAIN pageFiles :
                  /\ pageFiles[p].filename = indexFile.items[k]
                  /\ \E j \in DOMAIN pageFiles[p].convs :
                        /\ (pageFiles[p].pageNum - 1) * 5 + j = k
                        /\ pageFiles[p].convs[j] = conversations[k]
            /\ \A p \in DOMAIN pageFiles :
                  (\E j \in DOMAIN pageFiles[p].convs :
                        pageFiles[p].convs[j] = conversations[k])
                      => pageFiles[p].filename = indexFile.items[k]

\* the fifth conversation is linked to page 1, the sixth to page 2
C28_Witness ==
    /\ Generated
    /\ Len(conversations) = 11
    /\ indexFile.items[5] = "page-001.html"
    /\ indexFile.items[6] = "page-002.html"
    /\ indexFile.items[11] = "page-003.html"
    /\ pageFiles[2].convs[1] = conversations[6]

\* ============================================================ generateTranscript, whole
\* the entries of one session: every kind of entry, assistant messages with a
\* model, costs and tool calls, one of them of a tool named like a property
\* every object inherits
SessionShapes ==
    {UserHi, ToolResult,
     [type |-> "model_change", timestamp |-> "t0"],
     [type |-> "custom_message", timestamp |-> "t0", message |-> UserHi.message],
     MessageEntry("t0", [model |-> "m1", usage |-> [cost |-> [total |-> 1]]]
                         @@ Assistant(Arr(<<ToolCall("bash")>>))),
     MessageEntry("t0", [usage |-> [cost |-> [total |-> 2]]]
                         @@ Assistant(Arr(<<ToolCall("bash"), ToolCall("read")>>))),
     MessageEntry("t0", Assistant(Arr(<<ToolCall("constructor")>>)))}

\* generateTranscript at line 30: groupConversations(entries) is called
TranscriptInit ==
    /\ \E n \in 0..MaxEntries : \E q \in [1..n -> SessionShapes] : entries = WithIds(q)
    /\ i = 1
    /\ conversations = <<>>
    /\ current = JsNull
    /\ pc = "loop"
    /\ ParseIdle /\ ExtractIdle /\ PageIdle /\ BatchIdle
    /\ RunIdle /\ ListIdle /\ SingleIdle /\ PickIdle

\* const conversations = groupConversations(entries): the call has returned
Grouped ==
    /\ pc = "done"
    /\ genPc = "idle"
    /\ genPc' = "grouped"
    /\ UNCHANGED <<totalConvs, totalPages, pageNum, pageFiles, indexFile, generation>>
    /\ UNCHANGED <<groupVars, parseVars, extractVars, batchVars>>
    /\ UNCHANGED <<runVars, listVars, singleVars, pickVars>>

TranscriptNext ==
    \/ SideEntry
    \/ SkipEntry
    \/ UserMessage
    \/ OtherMessage
    \/ DropMessage
    \/ Return
    \/ Grouped
    \/ CountPages
    \/ WritePage
    \/ GenerationReturn

TranscriptSpec == TranscriptInit /\ [][TranscriptNext]_vars

\* ------------------------------------------------------------ claims C21, C22
\* the sum of a sequence of numbers
RECURSIVE SumSeq(_)
SumSeq(nums) == IF nums = <<>> THEN 0 ELSE Head(nums) + SumSeq(Tail(nums))

\* C21: the statistics of the index are sums over the emitted conversations:
\* the messages are the sum of the messages lengths, the tool calls the sum of
\* all toolCounts values, the cost the sum of the totalCost fields.
C21_IndexStatistics ==
    Generated =>
        /\ indexFile.totalMessages =
              SumSeq([c \in DOMAIN conversations |-> Len(conversations[c].messages)])
        /\ indexFile.totalCost =
              SumSeq([c \in DOMAIN conversations |-> conversations[c].totalCost])
        /\ IsNumber(indexFile.totalToolCalls)
        /\ \A c \in DOMAIN conversations : \A n \in DOMAIN conversations[c].toolCounts :
              IsNumber(conversations[c].toolCounts[n])
        /\ indexFile.totalToolCalls =
              Num(SumSeq([c \in DOMAIN conversations |->
                             SumOfCounts(conversations[c].toolCounts)]))

\* C22: a conversation that has been appended to the output keeps all its
\* fields: the entries processed after the flush change only the active
\* conversation, and pagination and the statistics only read.
C22_EmittedConversationsKept ==
    [][\A k \in DOMAIN conversations :
          /\ k \in DOMAIN conversations'
          /\ conversations'[k] = conversations[k]]_vars

\* after the first conversation was emitted a second one took an assistant
\* message, and the pages and the index were written
C22_Witness ==
    /\ Generated
    /\ Len(conversations) = 2
    /\ Len(conversations[1].messages) = 1
    /\ conversations[1].totalCost = 0
    /\ conversations[2].totalCost = 1
    /\ indexFile.totalMessages = 3
    /\ Len(pageFiles) = 1

\* ============================================================ groupConversations, called again
MaxRuns == 3        \* most calls of one process

\* the assistant message of the inputs below
Reply ==
    MessageEntry("t0", [model |-> "m1", usage |-> [cost |-> [total |-> 1]]]
                        @@ Assistant(Arr(<<ToolCall("bash")>>)))

\* the entry sequences of the sessions of one batch
RunInputs ==
    {WithIds(<<>>),
     WithIds(<<Reply>>),
     WithIds(<<UserHi>>),
     WithIds(<<UserHi, Reply>>),
     WithIds(<<[type |-> "model_change", timestamp |-> "t0"], UserEmpty, ToolResult>>),
     WithIds(<<[type |-> "custom_message", timestamp |-> "t0"], UserHi, Reply>>)}

\* the process has grouped nothing yet
RunInit ==
    /\ \E n \in 1..MaxRuns : queue \in [1..n -> RunInputs]
    /\ results = <<>>
    /\ entries = <<>>
    /\ i = 1
    /\ conversations = <<>>
    /\ current = JsNull
    /\ pc = "idle"
    /\ ParseIdle /\ ExtractIdle /\ PageIdle /\ BatchIdle
    /\ ListIdle /\ SingleIdle /\ PickIdle

\* mutant: the accumulator outlives the call
CallKeepsCurrent ==
    /\ pc = "idle"
    /\ queue # <<>>
    /\ entries' = Head(queue)
    /\ queue' = Tail(queue)
    /\ i' = 1
    /\ conversations' = <<>>
    /\ current' = current
    /\ pc' = "loop"
    /\ UNCHANGED results
    /\ UNCHANGED <<parseVars, extractVars, pageVars, batchVars>>
    /\ UNCHANGED <<listVars, singleVars, pickVars>>

\* groupConversations(entries) is entered: const conversations = [];
\* let current = null
Call ==
    /\ pc = "idle"
    /\ queue # <<>>
    /\ entries' = Head(queue)
    /\ queue' = Tail(queue)
    /\ i' = 1
    /\ conversations' = <<>>
    /\ current' = JsNull
    /\ pc' = "loop"
    /\ UNCHANGED results
    /\ UNCHANGED <<parseVars, extractVars, pageVars, batchVars>>
    /\ UNCHANGED <<listVars, singleVars, pickVars>>

\* the caller has the returned array; the locals of the call are out of reach
Returned ==
    /\ pc = "done"
    /\ results' = Append(results, [argument |-> entries, returned |-> conversations])
    /\ pc' = "idle"
    /\ UNCHANGED <<entries, i, conversations, current, queue>>
    /\ UNCHANGED <<parseVars, extractVars, pageVars, batchVars>>
    /\ UNCHANGED <<listVars, singleVars, pickVars>>

\* the calls, each running the loop of groupConversations
RunNext ==
    \/ Call
    \/ SideEntry
    \/ SkipEntry
    \/ UserMessage
    \/ OtherMessage
    \/ DropMessage
    \/ Return
    \/ Returned

RunSpec == RunInit /\ [][RunNext]_vars

\* ------------------------------------------------------------ claim C23
\* C23: the calls of groupConversations are independent: two calls with the
\* same entry sequence return the same conversations whatever was grouped
\* before, between or after them.
C23_RunsIndependent ==
    \A a \in DOMAIN results : \A b \in DOMAIN results :
        results[a].argument = results[b].argument
            => results[a].returned = results[b].returned

\* the same sequence was grouped first and third, after a sequence that left
\* an active conversation behind
C23_Witness ==
    /\ Len(results) = 3
    /\ results[1].argument = WithIds(<<Reply>>)
    /\ results[2].argument = WithIds(<<UserHi, Reply>>)
    /\ results[3].argument = WithIds(<<Reply>>)
    /\ results[2].returned # <<>>
    /\ results[3].returned = <<>>

\* ============================================================ cli.ts, --list and <number>
MaxFound == 52      \* most sessions on disk

\* parseArgs: limit: 15
DEFAULT_LIMIT == 15

\* main: findRecentSessions(50) of the number mode
NUMBER_MODE_LIMIT == 50

Digits == {"0", "1", "2", "3", "4", "5", "6", "7", "8", "9"}

\* /^\d+$/.test(text)
IsDigits(text) == text # <<>> /\ \A k \in DOMAIN text : text[k] \in Digits

DigitValue(c) == CHOOSE d \in 0..9 : ToString(d) = c

\* Number.parseInt(text, 10) of a string of digits
RECURSIVE ParseInt(_)
ParseInt(text) ==
    IF text = <<>> THEN 0
    ELSE 10 * ParseInt(SubSeq(text, 1, Len(text) - 1)) + DigitValue(text[Len(text)])

\* String(n) for 0 <= n < 100
DigitsOf(n) ==
    IF n < 10 THEN <<ToString(n)>> ELSE <<ToString(n \div 10), ToString(n % 10)>>

\* text.padStart(2)
PadStart2(text) == IF Len(text) < 2 THEN <<" ">> \o text ELSE text

\* all.slice(0, end) for any integer end
SliceTo(seq, end) ==
    LET stop == IF end < 0 THEN Max(Len(seq) + end, 0) ELSE Min(end, Len(seq))
    IN  SubSeq(seq, 1, stop)

\* all.sort((a, b) => b.mtime - a.mtime): a stable sort, newest first. The
\* place of all[k] in the result: behind every newer session and every
\* session of the same mtime that stood before it
RankIn(all, k) ==
    1 + Cardinality({m \in DOMAIN all :
                        \/ all[m].mtime > all[k].mtime
                        \/ all[m].mtime = all[k].mtime /\ m < k})

Ranks(all) == [k \in DOMAIN all |-> RankIn(all, k)] \o <<>>

PlaceBy(all, ranks) ==
    [r \in DOMAIN all |-> all[CHOOSE k \in DOMAIN all : ranks[k] = r]] \o <<>>

SortByMtime(all) == PlaceBy(all, Ranks(all))

\* findRecentSessions(limit)
findRecentSessions(n) == SliceTo(SortByMtime(found), n)

\* the sessions of two projects as findAllSessions flattens them: those of
\* the project with the newest session first, each project newest first
FoundSessions(n) ==
    LET first  == (n + 1) \div 2
        Mtime(k) == IF k <= first THEN n - 2 * (k - 1) ELSE n - 1 - 2 * (k - first - 1)
    IN  [k \in 1..n |-> [path |-> Mtime(k), mtime |-> Mtime(k)]]

FoundCounts == {0, 1, 2, 3, DEFAULT_LIMIT, DEFAULT_LIMIT + 1,
                NUMBER_MODE_LIMIT, NUMBER_MODE_LIMIT + 1, MaxFound}

Limits == {-1, 0, 1, DEFAULT_LIMIT, MaxFound}

\* numbers inside and outside the lists, one with a leading zero, and a path
Positionals ==
    {DigitsOf(n) : n \in {0, 1, 2, 3, DEFAULT_LIMIT, DEFAULT_LIMIT + 1,
                          NUMBER_MODE_LIMIT, NUMBER_MODE_LIMIT + 1, MaxFound, 99}}
    \cup {<<"0", "3">>, <<"s", ".", "j">>}

Rejected == [rejected |-> TRUE]

\* two invocations over the same sessions directory: --list --limit <limit>
\* and <positional>
ListInit ==
    /\ \E n \in FoundCounts : found = FoundSessions(n)
    /\ limit \in Limits
    /\ positional \in Positionals
    /\ listed = Pending
    /\ selection = Pending
    /\ listPc = "ready"
    /\ GroupIdle /\ ParseIdle /\ ExtractIdle /\ PageIdle /\ BatchIdle
    /\ RunIdle /\ SingleIdle /\ PickIdle

\* `  ${String(i + 1).padStart(2)}. ${line}` for every session
NumberedLines(sessions) ==
    [k \in DOMAIN sessions |->
        [num |-> PadStart2(DigitsOf(k)), session |-> sessions[k]]]

\* sessions[idx], refused when idx < 0 || idx >= sessions.length
SessionAt(idx, sessions) ==
    IF idx < 0 \/ idx >= Len(sessions) THEN Rejected
    ELSE [session |-> sessions[idx + 1]]

\* pi-transcript --list: the numbered lines that are printed
ListMode ==
    /\ listPc = "ready"
    /\ listed = Pending
    /\ listed' = Arr(NumberedLines(findRecentSessions(limit)))
    /\ UNCHANGED <<found, limit, positional, selection, listPc>>
    /\ UNCHANGED <<groupVars, parseVars, extractVars, pageVars, batchVars>>
    /\ UNCHANGED <<runVars, singleVars, pickVars>>

\* pi-transcript <number>: the session whose path becomes sessionPath, or
\* "Session #n not found" and exit(1)
NumberFromList ==
    /\ listPc = "ready"
    /\ selection = Pending
    /\ IsDigits(positional)
    /\ selection' = SessionAt(ParseInt(positional) - 1,
                              findRecentSessions(NUMBER_MODE_LIMIT))
    /\ UNCHANGED <<found, limit, positional, listed, listPc>>
    /\ UNCHANGED <<groupVars, parseVars, extractVars, pageVars, batchVars>>
    /\ UNCHANGED <<runVars, singleVars, pickVars>>

\* pi-transcript <file>: the argument is the path
PathArgument ==
    /\ listPc = "ready"
    /\ selection = Pending
    /\ ~IsDigits(positional)
    /\ selection' = [file |-> positional]
    /\ UNCHANGED <<found, limit, positional, listed, listPc>>
    /\ UNCHANGED <<groupVars, parseVars, extractVars, pageVars, batchVars>>
    /\ UNCHANGED <<runVars, singleVars, pickVars>>

ListNext ==
    \/ ListMode
    \/ NumberFromList
    \/ PathArgument

ListSpec == ListInit /\ [][ListNext]_vars

\* ------------------------------------------------------------ claim C24
\* C24: the positional number n converts the session --list prints under n,
\* whatever --limit the list was made with, and a number the list does not
\* print is refused.
C24_NumberSelectsListed ==
    (listed # Pending /\ selection # Pending /\ IsDigits(positional)) =>
        LET n       == ParseInt(positional)
            printed == listed.array
        IN  /\ \A k \in DOMAIN printed :
                  ParseInt(Trim(printed[k].num)) = n
                      => selection = [session |-> printed[k].session]
            /\ (\A k \in DOMAIN printed : ParseInt(Trim(printed[k].num)) # n)
                  => selection = Rejected

\* ------------------------------------------------------------ claim C29
\* the messages of the emitted conversations from conversation c on, one
\* conversation after the other
RECURSIVE MessagesFrom(_)
MessagesFrom(c) ==
    IF c > Len(conversations) THEN <<>>
    ELSE conversations[c].messages \o MessagesFrom(c + 1)

\* the same, followed by the messages of the active conversation while the
\* loop runs
AttachedSoFar ==
    MessagesFrom(1) \o (IF pc = "loop" /\ current # JsNull
                        THEN current.messages ELSE <<>>)

\* C29: the messages of the emitted conversations, concatenated in output
\* order, are entries of the input, unchanged, at strictly increasing
\* positions of the stream: no entry is attached twice or to two
\* conversations, and the order of the attached entries is that of the
\* stream.
C29_SubsequenceOfStream ==
    pc \in {"loop", "done"} =>
        LET attached == AttachedSoFar
        IN  /\ \A k \in DOMAIN attached :
                  /\ attached[k].id \in DOMAIN entries
                  /\ attached[k].id < i
                  /\ attached[k] = entries[attached[k].id]
            /\ \A k \in 1..(Len(attached) - 1) :
                  attached[k].id < attached[k + 1].id

\* the second of three entries was left out: the one conversation holds
\* the first and the third
C29_Witness ==
    /\ pc = "done"
    /\ Len(entries) = 3
    /\ Len(conversations) = 1
    /\ Len(conversations[1].messages) = 2
    /\ conversations[1].messages[1].id = 1
    /\ conversations[1].messages[2].id = 3

\* ============================================================ cli.ts, single file

\* what -o may hold: the default "", or a directory
OutputDirs == {"", "out"}

\* parseArgs: every combination of --open, --no-open, --gist, --pages,
\* --s3 and -o
FlagSets ==
    [open : BOOLEAN, noOpen : BOOLEAN, gist : BOOLEAN, pages : BOOLEAN,
     s3 : BOOLEAN, output : OutputDirs]

\* join(outputDir, "index.html")
IndexTarget == "index.html"

\* deployToPages: it throws, or returns the url wrangler printed, "" when
\* none was found
PagesOutcomes == {"throws", "", "https://transcript.pages.dev"}

\* uploadToS3: it throws, or returns the url
S3Outcomes == {"throws", "https://cdn.example/transcript/index.html"}

\* process.platform
Platforms == {"darwin", "linux", "win32", "freebsd"}

\* const explicitOutput = !!flags.output
explicitOutput(f) == f.output # ""

ShouldOpenDespiteNoOpen(f) ==
    f.open \/ (~explicitOutput(f) /\ ~f.gist /\ ~f.pages /\ ~f.s3)

\* const shouldOpen = flags.open || (!explicitOutput && !flags.noOpen &&
\* !flags.gist && !flags.pages && !flags.s3)
shouldOpen(f) ==
    f.open \/ (~explicitOutput(f) /\ ~f.noOpen /\ ~f.gist /\ ~f.pages /\ ~f.s3)

\* the session file exists and the flags are parsed
SingleInit ==
    /\ flags \in FlagSets
    /\ opened = <<>>
    /\ singlePc = "start"
    /\ GroupIdle /\ ParseIdle /\ ExtractIdle /\ PageIdle /\ BatchIdle
    /\ RunIdle /\ ListIdle /\ PickIdle

\* const result = generateTranscript(sessionPath, outputDir)
GenerateSingle ==
    /\ singlePc = "start"
    /\ singlePc' = "generated"
    /\ UNCHANGED <<flags, opened>>
    /\ UNCHANGED <<groupVars, parseVars, extractVars, pageVars, batchVars>>
    /\ UNCHANGED <<runVars, listVars, pickVars>>

\* if (flags.gist) { injectGistPreviewJs; createGist }: createGist may throw,
\* and main().catch ends the process
GistBlock ==
    /\ singlePc = "generated"
    /\ \E uploaded \in BOOLEAN :
          singlePc' = IF flags.gist /\ ~uploaded THEN "failed" ELSE "gist"
    /\ UNCHANGED <<flags, opened>>
    /\ UNCHANGED <<groupVars, parseVars, extractVars, pageVars, batchVars>>
    /\ UNCHANGED <<runVars, listVars, pickVars>>

\* if (flags.pages) { deployToPages; if (deployment.url) { if (flags.open)
\* openInBrowser(deployment.url) } }
PagesBlock ==
    /\ singlePc = "gist"
    /\ \E deployment \in PagesOutcomes :
          IF ~flags.pages
          THEN singlePc' = "pages" /\ opened' = opened
          ELSE IF deployment = "throws"
          THEN singlePc' = "failed" /\ opened' = opened
          ELSE /\ singlePc' = "pages"
               /\ opened' = IF deployment # "" /\ flags.open
                            THEN Append(opened, deployment)
                            ELSE opened
    /\ UNCHANGED flags
    /\ UNCHANGED <<groupVars, parseVars, extractVars, pageVars, batchVars>>
    /\ UNCHANGED <<runVars, listVars, pickVars>>

\* if (flags.s3) { uploadToS3; if (flags.open) open or xdg-open the url }
S3Block ==
    /\ singlePc = "pages"
    /\ \E s3Result \in S3Outcomes : \E platform \in Platforms :
          IF ~flags.s3
          THEN singlePc' = "s3" /\ opened' = opened
          ELSE IF s3Result = "throws"
          THEN singlePc' = "failed" /\ opened' = opened
          ELSE /\ singlePc' = "s3"
               /\ opened' = IF flags.open /\ platform \in {"darwin", "linux"}
                            THEN Append(opened, s3Result)
                            ELSE opened
    /\ UNCHANGED flags
    /\ UNCHANGED <<groupVars, parseVars, extractVars, pageVars, batchVars>>
    /\ UNCHANGED <<runVars, listVars, pickVars>>

\* if (shouldOpen) openInBrowser(join(outputDir, "index.html")), and main
\* returns
OpenBlock ==
    /\ singlePc = "s3"
    /\ opened' = IF shouldOpen(flags) THEN Append(opened, IndexTarget)
                 ELSE opened
    /\ singlePc' = "exited"
    /\ UNCHANGED flags
    /\ UNCHANGED <<groupVars, parseVars, extractVars, pageVars, batchVars>>
    /\ UNCHANGED <<runVars, listVars, pickVars>>

SingleNext ==
    \/ GenerateSingle
    \/ GistBlock
    \/ PagesBlock
    \/ S3Block
    \/ OpenBlock

SingleSpec == SingleInit /\ [][SingleNext]_vars

\* ------------------------------------------------------------ claim C25
IndexOpened == \E k \in DOMAIN opened : opened[k] = IndexTarget

MaxShown == 3       \* most sessions handed to the picker
MaxKeys == 4        \* most chunks read from stdin

\* the chunks stdin delivers in raw mode, by name: Ctrl+C, q, a lone Escape,
\* Return, line feed, the arrows up, down and right, k, j
Keys == {"ETX", "q", "ESC", "CR", "LF", "ESC[A", "k", "ESC[B", "j", "ESC[C"}

\* process.exit(0)
Exited == [exit |-> 0]

\* resolve(value): a promise is settled once
Resolve(value) == IF outcome = Pending THEN value ELSE outcome

CleanupKeepsListener == listening' = listening

\* cleanup(): process.stdin.removeListener("data", onKey)
Cleanup == listening' = FALSE

UpUnguarded(sel) == sel - 1

\* if (selected > 0) selected--
Up(sel) == IF sel > 0 THEN sel - 1 ELSE sel

\* if (selected < lines.length - 1) selected++
Down(sel, n) == IF sel < n - 1 THEN sel + 1 ELSE sel

\* main without a session path: const sessions = findRecentSessions(...)
PickInit ==
    /\ \E n \in 0..MaxShown : shown = SortByMtime(FoundSessions(n))
    /\ isTTY \in BOOLEAN
    /\ selected = 0
    /\ outcome = Pending
    /\ listening = FALSE
    /\ presses = <<>>
    /\ GroupIdle /\ ParseIdle /\ ExtractIdle /\ PageIdle /\ BatchIdle
    /\ RunIdle /\ ListIdle /\ SingleIdle

NotStarted == outcome = Pending /\ ~listening /\ presses = <<>>

\* if (sessions.length === 0) { ...; process.exit(0) }
NoSessions ==
    /\ NotStarted
    /\ shown = <<>>
    /\ outcome' = Exited
    /\ UNCHANGED <<shown, isTTY, selected, listening, presses>>
    /\ UNCHANGED <<groupVars, parseVars, extractVars, pageVars, batchVars>>
    /\ UNCHANGED <<runVars, listVars, singleVars>>

\* pickSession: if (!process.stdin.isTTY) { resolve(null); return }
NotATTY ==
    /\ NotStarted
    /\ shown # <<>>
    /\ ~isTTY
    /\ outcome' = Resolve(JsNull)
    /\ UNCHANGED <<shown, isTTY, selected, listening, presses>>
    /\ UNCHANGED <<groupVars, parseVars, extractVars, pageVars, batchVars>>
    /\ UNCHANGED <<runVars, listVars, singleVars>>

\* pickSession: let selected = 0; render(); process.stdin.on("data", onKey)
StartPicker ==
    /\ NotStarted
    /\ shown # <<>>
    /\ isTTY
    /\ selected' = 0
    /\ listening' = TRUE
    /\ UNCHANGED <<shown, isTTY, outcome, presses>>
    /\ UNCHANGED <<groupVars, parseVars, extractVars, pageVars, batchVars>>
    /\ UNCHANGED <<runVars, listVars, singleVars>>

\* onKey(key), called for a chunk while the listener is attached
OnKey ==
    /\ listening
    /\ outcome # Exited
    /\ Len(presses) < MaxKeys
    /\ \E key \in Keys :
          /\ presses' = Append(presses, key)
          /\ IF key = "ETX"
             THEN Cleanup /\ outcome' = Exited /\ selected' = selected
             ELSE IF key = "q" \/ key = "ESC"
             THEN Cleanup /\ outcome' = Resolve(JsNull) /\ selected' = selected
             ELSE IF key = "CR" \/ key = "LF"
             THEN /\ Cleanup
                  /\ outcome' = Resolve([session |-> shown[selected + 1]])
                  /\ selected' = selected
             ELSE IF key = "ESC[A" \/ key = "k"
             THEN /\ selected' = Up(selected)
                  /\ UNCHANGED <<outcome, listening>>
             ELSE IF key = "ESC[B" \/ key = "j"
             THEN /\ selected' = Down(selected, Len(shown))
                  /\ UNCHANGED <<outcome, listening>>
             ELSE UNCHANGED <<selected, outcome, listening>>
    /\ UNCHANGED <<shown, isTTY>>
    /\ UNCHANGED <<groupVars, parseVars, extractVars, pageVars, batchVars>>
    /\ UNCHANGED <<runVars, listVars, singleVars>>

\* a chunk that arrives when no listener is attached: nothing runs
KeyUnheard ==
    /\ ~listening
    /\ outcome \notin {Pending, Exited}
    /\ isTTY
    /\ Len(presses) < MaxKeys
    /\ \E key \in Keys : presses' = Append(presses, key)
    /\ UNCHANGED <<shown, isTTY, selected, outcome, listening>>
    /\ UNCHANGED <<groupVars, parseVars, extractVars, pageVars, batchVars>>
    /\ UNCHANGED <<runVars, listVars, singleVars>>

PickNext ==
    \/ NoSessions
    \/ NotATTY
    \/ StartPicker
    \/ OnKey
    \/ KeyUnheard

PickSpec == PickInit /\ [][PickNext]_vars

\* ------------------------------------------------------------ claim C27
LastKey == presses'[Len(presses')]

\* C27: the picker has one outcome, which never changes once it is there:
\* Return resolves with the session at the selected index, q or a lone
\* Escape with null, a stdin that is no TTY with null before any key; once
\* the promise is resolved no listener is attached, and a later key changes
\* neither the selection nor the result.
C27_OneOutcome ==
    [][/\ outcome # Pending =>
              outcome' = outcome /\ selected' = selected /\ ~listening'
       /\ (outcome = Pending /\ presses' # presses) =>
              /\ LastKey \in {"CR", "LF"} =>
                     outcome' = [session |-> shown[selected + 1]]
              /\ LastKey \in {"q", "ESC"} => outcome' = JsNull
              /\ LastKey \notin {"CR", "LF", "q", "ESC", "ETX"} =>
                     outcome' = Pending
              /\ outcome' # Pending => ~listening'
       /\ (outcome = Pending /\ presses' = presses /\ outcome' # Pending) =>
              /\ presses = <<>> /\ ~listening'
              /\ (shown # <<>> => ~isTTY /\ outcome' = JsNull)
      ]_vars

\* the second session was chosen with Return, and keys came after it
C27_Witness ==
    /\ Len(shown) >= 2
    /\ outcome = [session |-> shown[2]]
    /\ presses = <<"j", "CR", "k", "q">>
    /\ selected = 1
    /\ ~listening

\* ------------------------------------------------------------ claim C30
\* C30: while the picker runs the selected index is one of 0..n-1 for the n
\* sessions shown; Up or k at the first entry and Down or j at the last
\* leave it as it is, and so does every key that is none of Up, k, Down, j.
C30_SelectionInRange ==
    [][/\ (shown # <<>> /\ isTTY) => selected' \in 0..(Len(shown) - 1)
       /\ (listening /\ presses' # presses) =>
              /\ (LastKey \in {"ESC[A", "k"} /\ selected = 0) => selected' = 0
              /\ (LastKey \in {"ESC[B", "j"} /\ selected = Len(shown) - 1) =>
                     selected' = selected
              /\ (LastKey \in {"ESC[A", "k"} /\ selected > 0) =>
                     selected' = selected - 1
              /\ (LastKey \in {"ESC[B", "j"} /\ selected < Len(shown) - 1) =>
                     selected' = selected + 1
              /\ LastKey \notin {"ESC[A", "k", "ESC[B", "j"} =>
                     selected' = selected
      ]_vars

\* down past the last of two sessions and up past the first
C30_Witness ==
    /\ Len(shown) = 2
    /\ presses = <<"j", "ESC[B", "k", "ESC[A">>
    /\ selected = 0
    /\ listening

====
